---------------------------- MODULE Spec2Model ----------------------------
(* Coupled neutronics / heat-fluids Picard driver (CoupledDriver).          *)
(* Every MPI process of the pool runs CoupledDriver::execute(); the model   *)
(* has one program counter per process and one action per step of execute() *)
(* and of the update functions it calls.  Real numbers are exact rationals  *)
(* <<numerator, denominator>>.                                              *)
EXTENDS Integers, Sequences, FiniteSets, TLC

(* ------------------------------------------------------------------------ *)
(* Bounds of the model                                                      *)
(* ------------------------------------------------------------------------ *)
MaxTimesteps == 2
MaxPicard == 2

(* ------------------------------------------------------------------------ *)
(* Exact arithmetic standing for double                                     *)
(* ------------------------------------------------------------------------ *)
RECURSIVE Gcd(_, _)
Gcd(a, b) == IF b = 0 THEN a ELSE Gcd(b, a % b)

IAbs(n) == IF n < 0 THEN -n ELSE n

Rat(n, d) ==
    LET s == IF d < 0 THEN -1 ELSE 1
        g == Gcd(IAbs(n), IAbs(d))
    IN  <<(s * n) \div g, (s * d) \div g>>

RInt(n) == <<n, 1>>
RAdd(x, y) == Rat(x[1] * y[2] + y[1] * x[2], x[2] * y[2])
RSub(x, y) == Rat(x[1] * y[2] - y[1] * x[2], x[2] * y[2])
RMul(x, y) == Rat(x[1] * y[1], x[2] * y[2])
RDiv(x, y) == Rat(x[1] * y[2], x[2] * y[1])
RLess(x, y) == x[1] * y[2] < y[1] * x[2]
RAbs(x) == <<IAbs(x[1]), x[2]>>
RMax(x, y) == IF RLess(x, y) THEN y ELSE x

RECURSIVE SeqSum(_)
SeqSum(s) == IF s = <<>> THEN RInt(0) ELSE RAdd(Head(s), SeqSum(Tail(s)))

RECURSIVE SeqMax(_, _)
SeqMax(s, init) == IF s = <<>> THEN init ELSE SeqMax(Tail(s), RMax(init, Head(s)))

SetMax(S) == CHOOSE m \in S : \A x \in S : x <= m

\* std::numeric_limits<double>::lowest(), the start value of xt::amax
DBL_LOWEST == <<-1000000, 1>>

\* sqrt(g): exact when g is the square of a rational, symbolic otherwise
IsSquare(n) == \E r \in 0..n : r * r = n
ISqrt(n) == CHOOSE r \in 0..n : r * r = n
Sqrt(g) ==
    IF IsSquare(g[1]) /\ IsSquare(g[2])
    THEN [root |-> FALSE, v |-> <<ISqrt(g[1]), ISqrt(g[2])>>]
    ELSE [root |-> TRUE, v |-> g]
Plain(x) == [root |-> FALSE, v |-> x]

\* norm < epsilon for a norm value that may be a symbolic square root
NormLess(x, eps) ==
    IF x.root THEN RLess(x.v, RMul(eps, eps)) ELSE RLess(x.v, eps)

(* ------------------------------------------------------------------------ *)
(* Process topology: two disjoint groups of the pool                        *)
(* ------------------------------------------------------------------------ *)
neutronics_ranks == <<0, 1>>
heat_ranks == <<2, 3>>

Range(s) == {s[i] : i \in 1..Len(s)}
NeutronicsProcs == Range(neutronics_ranks)
HeatProcs == Range(heat_ranks)
Procs == NeutronicsProcs \cup HeatProcs

\* rank within a driver communicator, MPI_PROC_NULL outside it
MPI_PROC_NULL == 0 - 1
CommRank(ranks, p) ==
    IF \E i \in 1..Len(ranks) : ranks[i] = p
    THEN (CHOOSE i \in 1..Len(ranks) : ranks[i] = p) - 1
    ELSE MPI_PROC_NULL

NeutronicsActive(p) == p \in NeutronicsProcs
HeatActive(p) == p \in HeatProcs

\* comm_.is_root() ? comm_.rank : -1 on process p, for the driver communicator
\* whose members are ranks; the variant contributes the rank within the
\* driver communicator
RootOrNoneLocalRank(ranks, p) ==
    IF CommRank(ranks, p) = 0 THEN CommRank(ranks, p) ELSE 0 - 1
RootOrNone(ranks, p) == IF CommRank(ranks, p) = 0 THEN p ELSE 0 - 1

\* MPI_Allreduce(MPI_IN_PLACE, &x, 1, MPI_INT, MPI_MAX, comm_.comm): the value
\* every process of the pool holds afterwards
AllreduceMax(x) == [p \in Procs |-> SetMax({x[q] : q \in Procs})]

\* neutronics_root_ and heat_root_ of every process
neutronics_root_ == AllreduceMax([p \in Procs |-> RootOrNone(neutronics_ranks, p)])
heat_root_ == AllreduceMax([p \in Procs |-> RootOrNone(heat_ranks, p)])

\* MPI_Allreduce(MPI_MAX) of (is_root() ? comm_.rank : -1)
neutronics_root ==
    SetMax({IF CommRank(neutronics_ranks, p) = 0 THEN p ELSE 0 - 1 : p \in Procs})
heat_root ==
    SetMax({IF CommRank(heat_ranks, p) = 0 THEN p ELSE 0 - 1 : p \in Procs})

(* ------------------------------------------------------------------------ *)
(* The two solvers as seen through their interfaces                         *)
(* ------------------------------------------------------------------------ *)
CellHandles == {1, 2}

\* what neutronics.find() resolves the local element centroids of each heat
\* rank to: one cell per rank, a cell split over both ranks, no elements
Meshes ==
    { (2 :> <<1, 1>> @@ 3 :> <<2, 2>>),
      (2 :> <<1, 2>> @@ 3 :> <<1>>),
      (2 :> <<>> @@ 3 :> <<>>) }

\* heat.volume_local() of an n-element rank
VolumeLocal(p, n) == [e \in 1..n |-> IF p = heat_ranks[1] THEN RInt(1) ELSE RInt(2)]

\* heat.fluid_mask_local(): the elements of cell 2 are fluid
FluidCells == {2}
FluidMaskLocal(e2c) == [e \in 1..Len(e2c) |-> IF e2c[e] \in FluidCells THEN 1 ELSE 0]

\* the fields a heat-fluids solve can leave on a rank (temperature_local(),
\* density_local()), cut to the rank's element count
SolverOutputs == {1, 2}
TemperatureTable(o, p) ==
    IF p = heat_ranks[1]
    THEN (IF o = 1 THEN <<RInt(100), RInt(200)>> ELSE <<RInt(140), RInt(140)>>)
    ELSE (IF o = 1 THEN <<RInt(300), RInt(400)>> ELSE <<RInt(340), RInt(340)>>)
DensityTable(o, p) ==
    IF o = 1
    THEN (IF p = heat_ranks[1] THEN <<RInt(4), RInt(4)>> ELSE <<RInt(2), RInt(2)>>)
    ELSE <<RInt(8), RInt(8)>>
TemperatureLocal(o, p, n) == SubSeq(TemperatureTable(o, p), 1, n)
DensityLocal(o, p, n) == SubSeq(DensityTable(o, p), 1, n)

\* the field of the heat-fluids solver before its first solve
InitialOutput == CHOOSE o \in SolverOutputs : \A q \in SolverOutputs : q <= o

\* neutronics.get_volume(cell), neutronics.get_density(cell) before any update
NeutronicsVolume(c) == IF c = 1 THEN RInt(2) ELSE RInt(4)
InitialDensity(c) == RInt(8)
InitialTemperature(c) == RInt(293)

\* values the uninitialized storage of xt::empty can hold
Uninitialized == {RInt(0), RInt(7)}

\* the sentinel of the diminishing-step policy
ROBBINS_MONRO == <<0 - 1, 1>>

(* ------------------------------------------------------------------------ *)
(* State                                                                    *)
(* ------------------------------------------------------------------------ *)
VARIABLES
    \* the document handed to the constructor and the statement the
    \* constructor has reached
    xml, ctor,
    \* configuration read by the constructor
    max_timesteps, max_picard_iter, epsilon, alpha, alpha_T, alpha_rho, norm,
    temperature_ic, density_ic,
    \* whether MPI_Send completes before the matching receive is posted
    eager,
    \* spatial mapping, per process
    elem_to_cell, cell_to_elems, cells, elem_volumes, cell_volumes,
    cell_fluid_mask,
    \* per-cell fields, per process
    cell_temperatures, cell_temperatures_prev,
    cell_densities, cell_densities_prev,
    cell_heat, cell_heat_prev,
    \* heat-fluids solver of each heat rank
    h_temperature, h_density, h_source,
    \* neutronics solver of each neutronics rank
    n_temperature, n_density,
    \* execute() of each process
    pc, i_timestep, i_picard, converged, norm_value, k, T_dot_V, rho_dot_V,
    \* messages in flight
    chan, nbox, red, cbox, bar,
    \* what each process passed to comm_.message, Picard iterations it began
    msgs, iters,
    \* the lifecycle calls each process made on the two solvers, in order, and
    \* the volume averages step 2 of update_temperature(true) computed on it in
    \* the Picard iterations of the current time step
    calls, raw_temperatures

config == <<xml, ctor, max_timesteps, max_picard_iter, epsilon, alpha, alpha_T,
            alpha_rho, norm, temperature_ic, density_ic, eager>>
mapping == <<elem_to_cell, cell_to_elems, cells, elem_volumes, cell_volumes,
             cell_fluid_mask>>
temps == <<cell_temperatures, cell_temperatures_prev>>
dens == <<cell_densities, cell_densities_prev>>
heats == <<cell_heat, cell_heat_prev>>
hsolver == <<h_temperature, h_density, h_source>>
nsolver == <<n_temperature, n_density>>
loopvars == <<i_timestep, i_picard>>
locals == <<converged, norm_value, k, T_dot_V, rho_dot_V>>
wires == <<chan, nbox, red, cbox>>
observed == <<calls, raw_temperatures>>
vars == <<config, mapping, temps, dens, heats, hsolver, nsolver, pc, loopvars,
          locals, wires, bar, msgs, iters, observed>>

(* ------------------------------------------------------------------------ *)
(* Pure parts of the update functions                                       *)
(* ------------------------------------------------------------------------ *)
\* ascending list of the members of a set of cell handles (std::map order)
RECURSIVE Sorted(_)
Sorted(S) ==
    IF S = {} THEN <<>>
    ELSE LET m == CHOOSE x \in S : \A y \in S : x <= y
         IN  <<m>> \o Sorted(S \ {m})

RECURSIVE Indices(_, _, _)
Indices(s, c, e) ==
    IF e > Len(s) THEN <<>>
    ELSE (IF s[e] = c THEN <<e>> ELSE <<>>) \o Indices(s, c, e + 1)

\* init_mappings: cell -> local elements, and the list of local cells
CellToElems(e2c) == [c \in Range(e2c) |-> Indices(e2c, c, 1)]
\* cells_.push_back(c) once for every element
CellListPerElement(e2c) == e2c
CellList(e2c) == Sorted(Range(e2c))

\* init_volumes: volume of the local part of each cell
CellVolumes(cs, c2e, ev) ==
    [i \in 1..Len(cs) |-> SeqSum([j \in 1..Len(c2e[cs[i]]) |-> ev[c2e[cs[i]][j]]])]

\* cell_fluid_mask_ = elem_fluid_mask
CellFluidMaskPerElement(cs, c2e, em) == em
\* init_cell_fluid_mask: the mask of a cell's first element
CellFluidMask(cs, c2e, em) == [i \in 1..Len(cs) |-> em[c2e[cs[i]][1]]]

\* volume average of an element field over the elements es of one cell
VolumeAverage(es, f, ev) ==
    RDiv(SeqSum([j \in 1..Len(es) |-> RMul(f[es[j]], ev[es[j]])]),
         SeqSum([j \in 1..Len(es) |-> ev[es[j]]]))

\* the blend with the weights of the new and the previous value exchanged
RelaxSwapped(a, n, x, prev) ==
    RAdd(RMul(RSub(RInt(1), a), x), RMul(a, prev))
\* int n = i_picard_ + 2
RelaxationCountPlusTwo(i) == i + 2
\* int n = i_picard_ + 1
RelaxationCount(i) == i + 1

\* under-relaxation of one value; n is i_picard_ + 1
Relax(a, n, x, prev) ==
    IF a = ROBBINS_MONRO
    THEN RAdd(RDiv(x, RInt(n)), RMul(RSub(RInt(1), RDiv(RInt(1), RInt(n))), prev))
    ELSE RAdd(RMul(a, x), RMul(RSub(RInt(1), a), prev))

\* T_dot_V[cell] = x
AccumulateOverwrite(m, c, x) ==
    [d \in DOMAIN m \cup {c} |-> IF d = c THEN x ELSE m[d]]
\* T_dot_V[cell] = x for a new key only
AccumulateFirst(m, c, x) ==
    IF c \in DOMAIN m THEN m
    ELSE [d \in DOMAIN m \cup {c} |-> IF d = c THEN x ELSE m[d]]
\* T_dot_V[cell] += x, operator[] inserting 0 for a new key
Accumulate(m, c, x) ==
    IF c \in DOMAIN m
    THEN [m EXCEPT ![c] = RAdd(m[c], x)]
    ELSE [d \in DOMAIN m \cup {c} |-> IF d = c THEN x ELSE m[d]]

EmptyMap == [c \in {} |-> RInt(0)]

RECURSIVE AccumulateAll(_, _, _, _, _)
AccumulateAll(m, cs, f, v, i) ==
    IF i > Len(cs) THEN m
    ELSE AccumulateAll(Accumulate(m, cs[i], RMul(f[i], v[i])), cs, f, v, i + 1)

\* the volume averages of step 2 of update_temperature, before relaxation
RawTemperatures(cs, c2e, ev, elemT) ==
    [i \in 1..Len(cs) |-> VolumeAverage(c2e[cs[i]], elemT, ev)]

\* steps 1 and 2 of update_temperature on a heat rank: [cur, prev]
LocalTemperatures(relax, a, n, cs, c2e, ev, elemT, cur, prev) ==
    LET p0 == IF relax THEN cur ELSE prev
        raw == RawTemperatures(cs, c2e, ev, elemT)
    IN  [cur |-> IF relax
                 THEN [i \in 1..Len(cs) |-> Relax(a, n, raw[i], p0[i])]
                 ELSE raw,
         prev |-> p0]

\* steps 1 and 2 of update_density on a heat rank: [cur, prev].  Step 1
\* copies cell_densities_ onto cell_densities_ itself.
LocalDensities(relax, a, n, cs, c2e, ev, mask, elemRho, cur, prev) ==
    LET raw == [i \in 1..Len(cs) |->
                   IF mask[i] = 1
                   THEN VolumeAverage(c2e[cs[i]], elemRho, ev)
                   ELSE cur[i]]
    IN  [cur |-> IF relax
                 THEN [i \in 1..Len(cs) |-> Relax(a, n, raw[i], prev[i])]
                 ELSE raw,
         prev |-> prev]

\* the local term of temperature_norm on a heat rank
LocalNorm(nm, cur, prev) ==
    LET diff == [i \in 1..Len(cur) |-> RAbs(RSub(cur[i], prev[i]))]
    IN  CASE nm = "L1" -> SeqSum(diff)
          [] nm = "L2" -> SeqSum([i \in 1..Len(diff) |-> RMul(diff[i], diff[i])])
          [] nm = "LINF" -> SeqMax(diff, DBL_LOWEST)

\* MPI_Reduce of the local terms of the heat ranks hs[i..] onto the root
RECURSIVE Reduce(_, _, _, _)
Reduce(nm, parts, hs, i) ==
    IF i > Len(hs) THEN (IF nm = "LINF" THEN DBL_LOWEST ELSE RInt(0))
    ELSE IF nm = "LINF"
         THEN RMax(parts[hs[i]], Reduce(nm, parts, hs, i + 1))
         ELSE RAdd(parts[hs[i]], Reduce(nm, parts, hs, i + 1))

\* tnorm on the heat root
GlobalNorm(nm, g) == IF nm = "L2" THEN Sqrt(g) ELSE Plain(g)

\* converged = norm <= epsilon_
DecideOrEqual(nv, eps) ==
    NormLess(nv, eps) \/ nv.v = (IF nv.root THEN RMul(eps, eps) ELSE eps)
\* converged = norm < epsilon_
Decide(nv, eps) == NormLess(nv, eps)

(* ------------------------------------------------------------------------ *)
(* State after construction                                                 *)
(* The arrays of the heat ranks are as init_mappings, init_volumes,         *)
(* init_cell_fluid_mask, init_temperatures, init_densities and              *)
(* init_heat_source leave them.  The neutronics ranks hold the buffers they *)
(* last received in init_temperatures; their cell_fluid_mask_ and           *)
(* cell_densities_ are never sized, and the constructor is taken to have    *)
(* returned on them.                                                        *)
(* ------------------------------------------------------------------------ *)
Half == <<1, 2>>
Norms == {"L1", "L2", "LINF"}
Epsilons == {RInt(5)}
AlphaTs == {Half, RInt(1)}
AlphaRhos == {Half}
Alphas == {Half}

LastHeat == heat_ranks[Len(heat_ranks)]

\* the gather loop of update_temperature / update_density over heat_ranks_
RECURSIVE GatherIn(_, _, _, _, _, _)
GatherIn(order, m, cs, f, v, i) ==
    IF i > Len(order) THEN m
    ELSE GatherIn(order, AccumulateAll(m, cs[order[i]], f[order[i]],
                                       v[order[i]], 1), cs, f, v, i + 1)
GatherAll(m, cs, f, v, i) == GatherIn(heat_ranks, m, cs, f, v, i)

\* the members the constructor fills after it has read the configuration;
\* g and gp are what the unwritten cell_heat_ and cell_heat_prev_ hold
InitState(g, gp) ==
    /\ \E mesh \in Meshes :
        LET e2c == [p \in Procs |->
                       IF HeatActive(p) THEN mesh[p]
                       ELSE IF p = neutronics_root THEN mesh[LastHeat] ELSE <<>>]
            c2e == [p \in Procs |->
                       IF HeatActive(p) THEN CellToElems(e2c[p]) ELSE EmptyMap]
            cs == [p \in Procs |-> IF HeatActive(p) THEN CellList(e2c[p]) ELSE <<>>]
            ev == [p \in Procs |->
                       IF HeatActive(p) THEN VolumeLocal(p, Len(e2c[p])) ELSE <<>>]
            cv == [p \in Procs |-> CellVolumes(cs[p], c2e[p], ev[p])]
            hT == [p \in HeatProcs |-> TemperatureLocal(InitialOutput, p, Len(e2c[p]))]
            \* temperature_ic_ == Initial::heat: update_temperature(false)
            cT == [p \in HeatProcs |->
                       LocalTemperatures(FALSE, alpha_T, 1, cs[p], c2e[p], ev[p],
                                         hT[p], <<>>, <<>>).cur]
            tdv == GatherAll(EmptyMap, cs, cT, cv, 1)
        IN  /\ elem_to_cell = e2c
            /\ cell_to_elems = c2e
            /\ cells = [p \in Procs |-> IF HeatActive(p) THEN cs[p] ELSE cs[LastHeat]]
            /\ elem_volumes = ev
            /\ cell_volumes = [p \in Procs |-> IF HeatActive(p) THEN cv[p] ELSE cv[LastHeat]]
            /\ cell_fluid_mask = [p \in Procs |->
                   IF HeatActive(p)
                   THEN CellFluidMask(cs[p], c2e[p], FluidMaskLocal(e2c[p]))
                   ELSE <<>>]
            /\ cell_temperatures = [p \in Procs |->
                   IF HeatActive(p) THEN cT[p] ELSE cT[LastHeat]]
            /\ cell_temperatures_prev = [p \in Procs |->
                   IF HeatActive(p) THEN cT[p] ELSE <<>>]
            \* density_ic_ == Initial::neutronics: get_density of each local cell
            /\ cell_densities = [p \in Procs |->
                   IF HeatActive(p)
                   THEN [i \in 1..Len(cs[p]) |-> InitialDensity(cs[p][i])]
                   ELSE <<>>]
            /\ cell_densities_prev = [p \in Procs |->
                   IF HeatActive(p)
                   THEN [i \in 1..Len(cs[p]) |-> InitialDensity(cs[p][i])]
                   ELSE <<>>]
            /\ cell_heat = [p \in Procs |->
                   IF HeatActive(p) THEN [i \in 1..Len(cs[p]) |-> g] ELSE <<>>]
            /\ cell_heat_prev = [p \in Procs |->
                   IF HeatActive(p) THEN [i \in 1..Len(cs[p]) |-> gp] ELSE <<>>]
            /\ h_temperature = hT
            /\ h_density = [p \in HeatProcs |->
                   DensityLocal(InitialOutput, p, Len(e2c[p]))]
            /\ h_source = [p \in HeatProcs |-> [e \in 1..Len(e2c[p]) |-> <<>>]]
            /\ n_temperature = [p \in NeutronicsProcs |-> [c \in CellHandles |->
                   IF c \in DOMAIN tdv
                   THEN RDiv(tdv[c], NeutronicsVolume(c))
                   ELSE InitialTemperature(c)]]
            /\ n_density = [p \in NeutronicsProcs |-> [c \in CellHandles |->
                   InitialDensity(c)]]
    /\ pc = [p \in Procs |-> "timestep"]
    /\ i_timestep = [p \in Procs |-> 0]
    /\ i_picard = [p \in Procs |-> 0]
    /\ converged = [p \in Procs |-> FALSE]
    /\ norm_value = [p \in Procs |-> Plain(RInt(0))]
    /\ k = [p \in Procs |-> 1]
    /\ T_dot_V = [p \in Procs |-> EmptyMap]
    /\ rho_dot_V = [p \in Procs |-> EmptyMap]
    /\ chan = [p \in HeatProcs |-> <<>>]
    /\ nbox = [p \in NeutronicsProcs |-> <<>>]
    /\ red = [p \in HeatProcs |-> <<>>]
    /\ cbox = [p \in Procs |-> <<>>]
    /\ bar = [p \in Procs |-> 0]
    /\ msgs = [p \in Procs |-> {}]
    /\ iters = [p \in Procs |-> 0]
    /\ calls = [p \in Procs |-> <<>>]
    /\ raw_temperatures = [p \in Procs |-> <<>>]

\* the constructor has returned: its argument is gone, the temperatures
\* were seeded by the heat-fluids solver and the densities by the
\* neutronics solver
Constructed ==
    /\ xml = <<>>
    /\ ctor = "constructed"
    /\ temperature_ic = "heat"
    /\ density_ic = "neutronics"

\* the configuration the constructor reads
InitConfig ==
    /\ max_timesteps \in 0..MaxTimesteps
    /\ max_picard_iter \in 0..MaxPicard
    /\ epsilon \in Epsilons
    /\ alpha \in Alphas
    /\ alpha_T \in AlphaTs
    /\ alpha_rho \in AlphaRhos
    /\ norm \in Norms
    /\ eager \in BOOLEAN
    /\ Constructed

Init == InitConfig /\ \E g \in Uninitialized : InitState(g, g)


(* ------------------------------------------------------------------------ *)
(* Communication primitives of Comm                                         *)
(* ------------------------------------------------------------------------ *)
\* comm_.Barrier(): a process leaves its n-th barrier once all have entered it
BarrierOpen(p) == \A q \in Procs : bar[q] >= bar[p]

\* comm_.send_and_recv(x, neutronics_root_, heat_rank) on the sending side:
\* the send has returned
SendDone(p) == eager \/ chan[p] = <<>>

\* the receiving side of the current turn of a gather loop: the neutronics
\* root receives from heat_ranks_[k], the other neutronics ranks receive the
\* root's broadcast
RecvReady(p) ==
    IF p = neutronics_root THEN chan[heat_ranks[k[p]]] # <<>> ELSE nbox[p] # <<>>

\* MPI_Reduce on the root of the heat communicator: every other heat rank
\* has contributed
ReduceReady(p) == \A h \in HeatProcs \ {p} : red[h] # <<>>

\* comm_.message(msg)
Log(p, kind) ==
    msgs' = [msgs EXCEPT ![p] = @ \cup {<<kind, i_timestep[p], i_picard[p]>>}]

\* a broadcast that reaches the heat group only
ConvergedCommHeat == HeatProcs
\* the communicator of the two broadcasts of is_converged
ConvergedComm == Procs

\* comm_.broadcast(converged, heat_root_) on a receiving process
BroadcastReady(p) == p \in ConvergedComm => cbox[p] # <<>>

(* ------------------------------------------------------------------------ *)
(* execute()                                                                *)
(* ------------------------------------------------------------------------ *)
\* i_timestep_ < max_timesteps_
TimestepContinues(t) == t < max_timesteps
\* i_picard_ <= max_picard_iter_
PicardContinuesOrEqual(i) == i <= max_picard_iter
\* i_picard_ < max_picard_iter_
PicardContinues(i) == i < max_picard_iter

TimestepLoop(p) ==
    /\ pc[p] = "timestep"
    /\ IF TimestepContinues(i_timestep[p])
       THEN /\ i_picard' = [i_picard EXCEPT ![p] = 0]
            /\ msgs' = [msgs EXCEPT ![p] = @ \cup {<<"i_timestep", i_timestep[p], 0>>}]
            /\ raw_temperatures' = [raw_temperatures EXCEPT ![p] = <<>>]
            /\ pc' = [pc EXCEPT ![p] = "picard"]
       ELSE /\ pc' = [pc EXCEPT ![p] = "final"]
            /\ UNCHANGED <<i_picard, msgs, raw_temperatures>>
    /\ UNCHANGED <<config, mapping, temps, dens, heats, hsolver, nsolver,
                   i_timestep, locals, wires, bar, iters, calls>>

PicardLoop(p) ==
    /\ pc[p] = "picard"
    /\ IF PicardContinues(i_picard[p])
       THEN /\ Log(p, "i_picard")
            /\ iters' = [iters EXCEPT ![p] = @ + 1]
            /\ pc' = [pc EXCEPT ![p] = "neutronics"]
            /\ UNCHANGED bar
       ELSE /\ pc' = [pc EXCEPT ![p] = "barrier3"]
            /\ bar' = [bar EXCEPT ![p] = @ + 1]
            /\ UNCHANGED <<msgs, iters>>
    /\ UNCHANGED <<config, mapping, temps, dens, heats, hsolver, nsolver,
                   loopvars, locals, wires, observed>>

\* one lifecycle call on a solver: the step is <<i_timestep_, i_picard_>> of
\* the iteration the call is made in, <<>> for the call after the loops
Call(solver, name, step) == [solver |-> solver, call |-> name, step |-> step]

\* solve_step() after write_step(i_timestep_, i_picard_)
StepCallsWriteFirst(solver, t, i) ==
    << Call(solver, "init_step", <<t, i>>), Call(solver, "write_step", <<t, i>>),
       Call(solver, "solve_step", <<t, i>>), Call(solver, "finalize_step", <<t, i>>) >>
\* init_step(), solve_step(), write_step(i_timestep_, i_picard_) and
\* finalize_step() of one solver
StepCalls(solver, t, i) ==
    << Call(solver, "init_step", <<t, i>>), Call(solver, "solve_step", <<t, i>>),
       Call(solver, "write_step", <<t, i>>), Call(solver, "finalize_step", <<t, i>>) >>

\* the neutronics step of the active processes, then the first barrier
NeutronicsStep(p) ==
    /\ pc[p] = "neutronics"
    /\ calls' = [calls EXCEPT ![p] =
                    IF NeutronicsActive(p)
                    THEN @ \o StepCalls("neutronics", i_timestep[p], i_picard[p])
                    ELSE @]
    /\ pc' = [pc EXCEPT ![p] = "barrier1"]
    /\ bar' = [bar EXCEPT ![p] = @ + 1]
    /\ UNCHANGED <<config, mapping, temps, dens, heats, hsolver, nsolver,
                   loopvars, locals, wires, msgs, iters, raw_temperatures>>

\* execute() without a barrier between the neutronics step and
\* update_heat_source
HeatSourceNoBarrier(p) == TRUE
\* comm_.Barrier() between the neutronics step and update_heat_source
HeatSourceBarrier(p) == BarrierOpen(p)

\* heat source of element e after the loop that starts at cell index i0 + 1
SourceApplied(p, src, cur, i0) ==
    [e \in 1..Len(elem_to_cell[p]) |->
        LET i == CHOOSE j \in 1..Len(cells[p]) : cells[p][j] = elem_to_cell[p][e]
        IN  IF i > i0 THEN Append(src[e], cur[i]) ELSE src[e]]

\* the argument of update_heat_source in execute(), with the test of the
\* Picard counter alone
RelaxHeatSourcePicardOnly(t, i) == i > 0
\* the argument of update_heat_source in execute()
RelaxHeatSource(t, i) == t > 0 \/ i > 0

\* neutronics.heat_source(power_): the heat source of every global cell
HeatSource == [c \in 1..2 |-> RInt(50 * c)]

\* global_cell_heat_, a local of update_heat_source, on process p
GlobalCellHeat(p) == IF p = neutronics_root THEN HeatSource ELSE <<>>

\* cell_heat_ of process p after the loop over heat_ranks_ of
\* update_heat_source, whose body is a comment; the variant is the last loop
\* of that comment, cell_heat_.at(l_cell) = global_cell_heat_.at(g_cell)
HeatSourceGatheredFromRoot(p, heat) ==
    [i \in 1..Len(heat) |-> GlobalCellHeat(neutronics_root)[cells[p][i]]]
HeatSourceGathered(p, heat) == heat

\* cell_heat_ and cell_heat_prev_ of a heat rank after the copy and the
\* relaxation of update_heat_source: [cur, prev]
HeatSourceRelaxed(p) ==
    LET relax == RelaxHeatSource(i_timestep[p], i_picard[p])
        prev1 == IF relax THEN cell_heat[p] ELSE cell_heat_prev[p]
        gathered == HeatSourceGathered(p, cell_heat[p])
    IN  [cur |-> IF relax
                 THEN [i \in 1..Len(cell_heat[p]) |->
                          Relax(alpha, RelaxationCount(i_picard[p]), gathered[i], prev1[i])]
                 ELSE gathered,
         prev |-> prev1]

\* update_heat_source(i_timestep_ > 0 || i_picard_ > 0).  The index of the
\* loop that sets the heat source is read before it is ever written.
UpdateHeatSource(p) ==
    /\ pc[p] = "barrier1"
    /\ HeatSourceBarrier(p)
    /\ LET r == HeatSourceRelaxed(p)
       IN  IF HeatActive(p)
           THEN /\ cell_heat' = [cell_heat EXCEPT ![p] = r.cur]
                /\ cell_heat_prev' = [cell_heat_prev EXCEPT ![p] = r.prev]
                /\ \E i0 \in 0..Len(cells[p]) :
                     h_source' = [h_source EXCEPT ![p] =
                                     SourceApplied(p, h_source[p], r.cur, i0)]
           ELSE UNCHANGED <<heats, h_source>>
    /\ pc' = [pc EXCEPT ![p] = "heat"]
    /\ UNCHANGED <<config, mapping, temps, dens, h_temperature, h_density,
                   nsolver, loopvars, locals, wires, bar, msgs, iters, observed>>

\* the heat-fluids step of the active processes, then the second barrier
HeatStep(p) ==
    /\ pc[p] = "heat"
    /\ IF HeatActive(p)
       THEN \E o \in SolverOutputs :
              /\ h_temperature' = [h_temperature EXCEPT ![p] =
                                      TemperatureLocal(o, p, Len(elem_to_cell[p]))]
              /\ h_density' = [h_density EXCEPT ![p] =
                                  DensityLocal(o, p, Len(elem_to_cell[p]))]
              /\ h_source' = [h_source EXCEPT ![p] =
                                 [e \in 1..Len(elem_to_cell[p]) |-> <<>>]]
       ELSE UNCHANGED hsolver
    /\ calls' = [calls EXCEPT ![p] =
                    IF HeatActive(p)
                    THEN @ \o StepCalls("heat", i_timestep[p], i_picard[p])
                    ELSE @]
    /\ pc' = [pc EXCEPT ![p] = "barrier2"]
    /\ bar' = [bar EXCEPT ![p] = @ + 1]
    /\ UNCHANGED <<config, mapping, temps, dens, heats, nsolver, loopvars,
                   locals, wires, msgs, iters, raw_temperatures>>

(* ------------------------------------------------------------------------ *)
(* update_temperature(true)                                                 *)
(* ------------------------------------------------------------------------ *)
Bundle(f, cs, v) == [f |-> f, cells |-> cs, volumes |-> v]

\* the array x of process p after the gather loop, own being its x before
\* the loop and last that of the last heat rank: send_and_recv delivers to
\* the neutronics root and neutronics.comm_.broadcast to the neutronics
\* ranks; the variant broadcasts over the whole pool
AfterExchangeWholePool(p, own, last) == last
AfterExchange(p, own, last) == IF NeutronicsActive(p) THEN last ELSE own

\* a heat rank: steps 1 and 2, then its turn of the gather loop
UpdateTemperatureHeat(p) ==
    /\ HeatActive(p)
    /\ pc[p] = "barrier2"
    /\ BarrierOpen(p)
    /\ LET r == LocalTemperatures(TRUE, alpha_T, RelaxationCount(i_picard[p]), cells[p],
                                  cell_to_elems[p], elem_volumes[p],
                                  h_temperature[p], cell_temperatures[p],
                                  cell_temperatures_prev[p])
       IN  /\ cell_temperatures' = [cell_temperatures EXCEPT ![p] =
                   AfterExchange(p, r.cur, cell_temperatures[LastHeat])]
           /\ cell_temperatures_prev' = [cell_temperatures_prev EXCEPT ![p] = r.prev]
           /\ chan' = [chan EXCEPT ![p] =
                          Append(@, Bundle(r.cur, cells[p], cell_volumes[p]))]
    /\ cells' = [cells EXCEPT ![p] = AfterExchange(p, @, cells[LastHeat])]
    /\ cell_volumes' = [cell_volumes EXCEPT ![p] =
                            AfterExchange(p, @, cell_volumes[LastHeat])]
    /\ raw_temperatures' = [raw_temperatures EXCEPT ![p] =
           Append(@, RawTemperatures(cells[p], cell_to_elems[p], elem_volumes[p],
                                     h_temperature[p]))]
    /\ Log(p, "Updating temperature")
    /\ pc' = [pc EXCEPT ![p] = "temperature_sent"]
    /\ UNCHANGED <<config, elem_to_cell, cell_to_elems, elem_volumes,
                   cell_fluid_mask, dens, heats, hsolver, nsolver, loopvars,
                   locals, nbox, red, cbox, bar, iters, calls>>

\* a neutronics rank enters update_temperature
UpdateTemperatureBegin(p) ==
    /\ NeutronicsActive(p)
    /\ pc[p] = "barrier2"
    /\ BarrierOpen(p)
    /\ k' = [k EXCEPT ![p] = 1]
    /\ T_dot_V' = [T_dot_V EXCEPT ![p] = EmptyMap]
    /\ Log(p, "Updating temperature")
    /\ pc' = [pc EXCEPT ![p] = "temperature"]
    /\ UNCHANGED <<config, mapping, temps, dens, heats, hsolver, nsolver,
                   loopvars, converged, norm_value, rho_dot_V, wires, bar, iters, observed>>

\* one turn of the gather loop on a neutronics rank: the root receives from
\* heat_ranks_[k] and broadcasts, the others receive the broadcast
UpdateTemperatureGather(p) ==
    /\ NeutronicsActive(p)
    /\ pc[p] = "temperature"
    /\ LET h == heat_ranks[k[p]]
           fromRoot == p = neutronics_root
           m == IF fromRoot THEN Head(chan[h]) ELSE Head(nbox[p])
       IN  /\ RecvReady(p)
           /\ IF fromRoot
              THEN /\ chan' = [chan EXCEPT ![h] = Tail(@)]
                   /\ nbox' = [q \in NeutronicsProcs |->
                                  IF q = p THEN nbox[q] ELSE Append(nbox[q], m)]
              ELSE /\ nbox' = [nbox EXCEPT ![p] = Tail(@)]
                   /\ UNCHANGED chan
           /\ cell_temperatures' = [cell_temperatures EXCEPT ![p] = m.f]
           /\ cells' = [cells EXCEPT ![p] = m.cells]
           /\ cell_volumes' = [cell_volumes EXCEPT ![p] = m.volumes]
           /\ T_dot_V' = [T_dot_V EXCEPT ![p] =
                             AccumulateAll(@, m.cells, m.f, m.volumes, 1)]
    /\ k' = [k EXCEPT ![p] = @ + 1]
    /\ pc' = [pc EXCEPT ![p] =
                 IF k[p] = Len(heat_ranks) THEN "temperature_set" ELSE "temperature"]
    /\ UNCHANGED <<config, elem_to_cell, cell_to_elems, elem_volumes,
                   cell_fluid_mask, cell_temperatures_prev, dens, heats, hsolver,
                   nsolver, loopvars, converged, norm_value, rho_dot_V, red,
                   cbox, bar, msgs, iters, observed>>

\* neutronics.set_temperature(cell, T_dot_V / neutronics.get_volume(cell))
SetTemperature(tdv, c) == RDiv(tdv[c], NeutronicsVolume(c))

\* step 4, then the neutronics rank enters update_density
UpdateTemperatureSet(p) ==
    /\ pc[p] = "temperature_set"
    /\ n_temperature' = [n_temperature EXCEPT ![p] =
           [c \in CellHandles |->
               IF c \in DOMAIN T_dot_V[p]
               THEN SetTemperature(T_dot_V[p], c)
               ELSE n_temperature[p][c]]]
    /\ T_dot_V' = [T_dot_V EXCEPT ![p] = EmptyMap]
    /\ rho_dot_V' = [rho_dot_V EXCEPT ![p] = EmptyMap]
    /\ k' = [k EXCEPT ![p] = 1]
    /\ Log(p, "Updating density")
    /\ pc' = [pc EXCEPT ![p] = "density"]
    /\ UNCHANGED <<config, mapping, temps, dens, heats, hsolver, n_density,
                   loopvars, converged, norm_value, wires, bar, iters, observed>>

(* ------------------------------------------------------------------------ *)
(* update_density(true)                                                     *)
(* ------------------------------------------------------------------------ *)
\* a heat rank: the sends of update_temperature have returned; steps 1 and 2
\* of update_density, then its turn of the gather loop
UpdateDensityHeat(p) ==
    /\ HeatActive(p)
    /\ pc[p] = "temperature_sent"
    /\ SendDone(p)
    /\ LET r == LocalDensities(TRUE, alpha_rho, RelaxationCount(i_picard[p]), cells[p],
                               cell_to_elems[p], elem_volumes[p],
                               cell_fluid_mask[p], h_density[p],
                               cell_densities[p], cell_densities_prev[p])
       IN  /\ cell_densities' = [cell_densities EXCEPT ![p] =
                   AfterExchange(p, r.cur, cell_densities[LastHeat])]
           /\ cell_densities_prev' = [cell_densities_prev EXCEPT ![p] = r.prev]
           /\ chan' = [chan EXCEPT ![p] =
                          Append(@, Bundle(r.cur, cells[p], cell_volumes[p]))]
    /\ cells' = [cells EXCEPT ![p] = AfterExchange(p, @, cells[LastHeat])]
    /\ cell_volumes' = [cell_volumes EXCEPT ![p] =
                            AfterExchange(p, @, cell_volumes[LastHeat])]
    /\ Log(p, "Updating density")
    /\ pc' = [pc EXCEPT ![p] = "density_sent"]
    /\ UNCHANGED <<config, elem_to_cell, cell_to_elems, elem_volumes,
                   cell_fluid_mask, temps, heats, hsolver, nsolver, loopvars,
                   locals, nbox, red, cbox, bar, iters, observed>>

\* one turn of the gather loop on a neutronics rank, up to the broadcasts
UpdateDensityGather(p) ==
    /\ NeutronicsActive(p)
    /\ pc[p] = "density"
    /\ LET h == heat_ranks[k[p]]
           fromRoot == p = neutronics_root
           m == IF fromRoot THEN Head(chan[h]) ELSE Head(nbox[p])
       IN  /\ RecvReady(p)
           /\ IF fromRoot
              THEN /\ chan' = [chan EXCEPT ![h] = Tail(@)]
                   /\ nbox' = [q \in NeutronicsProcs |->
                                  IF q = p THEN nbox[q] ELSE Append(nbox[q], m)]
              ELSE /\ nbox' = [nbox EXCEPT ![p] = Tail(@)]
                   /\ UNCHANGED chan
           /\ cell_densities' = [cell_densities EXCEPT ![p] = m.f]
           /\ cells' = [cells EXCEPT ![p] = m.cells]
           /\ cell_volumes' = [cell_volumes EXCEPT ![p] = m.volumes]
    /\ pc' = [pc EXCEPT ![p] = "density_acc"]
    /\ UNCHANGED <<config, elem_to_cell, cell_to_elems, elem_volumes,
                   cell_fluid_mask, temps, cell_densities_prev, heats, hsolver,
                   nsolver, loopvars, locals, red, cbox, bar, msgs, iters, observed>>

\* cell_fluid_mask_.at(i) of the accumulation loop throws std::out_of_range
MaskOutOfRange(p) == \E i \in 1..Len(cells[p]) : i > Len(cell_fluid_mask[p])

RECURSIVE AccumulateFluid(_, _, _, _, _, _)
AccumulateFluid(m, cs, mask, f, v, i) ==
    IF i > Len(cs) THEN m
    ELSE AccumulateFluid(IF mask[i] = 1
                         THEN Accumulate(m, cs[i], RMul(f[i], v[i]))
                         ELSE m,
                         cs, mask, f, v, i + 1)

\* the accumulation loops of update_density over the heat ranks in the given
\* order, with the fluid mask of the accumulating process
RECURSIVE GatherFluidIn(_, _, _, _, _, _, _)
GatherFluidIn(order, m, cs, mask, f, v, i) ==
    IF i > Len(order) THEN m
    ELSE GatherFluidIn(order, AccumulateFluid(m, cs[order[i]], mask, f[order[i]],
                                              v[order[i]], 1),
                       cs, mask, f, v, i + 1)

\* the accumulation of one turn, which consults this process's own
\* cell_fluid_mask_
UpdateDensityAccumulate(p) ==
    /\ pc[p] = "density_acc"
    /\ IF MaskOutOfRange(p)
       THEN /\ pc' = [pc EXCEPT ![p] = "crashed"]
            /\ UNCHANGED <<k, rho_dot_V>>
       ELSE /\ rho_dot_V' = [rho_dot_V EXCEPT ![p] =
                   AccumulateFluid(@, cells[p], cell_fluid_mask[p],
                                   cell_densities[p], cell_volumes[p], 1)]
            /\ k' = [k EXCEPT ![p] = @ + 1]
            /\ pc' = [pc EXCEPT ![p] =
                   IF k[p] = Len(heat_ranks) THEN "density_set" ELSE "density"]
    /\ UNCHANGED <<config, mapping, temps, dens, heats, hsolver, nsolver,
                   loopvars, converged, norm_value, T_dot_V, wires, bar, msgs,
                   iters, observed>>

\* step 4, then the neutronics rank enters is_converged
UpdateDensitySet(p) ==
    /\ pc[p] = "density_set"
    /\ n_density' = [n_density EXCEPT ![p] =
           [c \in CellHandles |->
               IF c \in DOMAIN rho_dot_V[p]
               THEN RDiv(rho_dot_V[p][c], NeutronicsVolume(c))
               ELSE n_density[p][c]]]
    /\ rho_dot_V' = [rho_dot_V EXCEPT ![p] = EmptyMap]
    /\ pc' = [pc EXCEPT ![p] = "is_converged"]
    /\ UNCHANGED <<config, mapping, temps, dens, heats, hsolver, n_temperature,
                   loopvars, converged, norm_value, k, T_dot_V, wires, bar,
                   msgs, iters, observed>>

(* ------------------------------------------------------------------------ *)
(* is_converged()                                                           *)
(* ------------------------------------------------------------------------ *)
\* temperature_norm on a heat rank other than the root of the reduction
TemperatureNormHeat(p) ==
    /\ HeatActive(p)
    /\ p # heat_root
    /\ pc[p] = "density_sent"
    /\ SendDone(p)
    /\ red' = [red EXCEPT ![p] =
                  <<LocalNorm(norm, cell_temperatures[p], cell_temperatures_prev[p])>>]
    /\ pc' = [pc EXCEPT ![p] = "is_converged"]
    /\ UNCHANGED <<config, mapping, temps, dens, heats, hsolver, nsolver,
                   loopvars, locals, chan, nbox, cbox, bar, msgs, iters, observed>>

\* the heat root: the reduction completes, the decision is taken and both
\* broadcasts are started
IsConvergedRoot(p) ==
    /\ p = heat_root
    /\ pc[p] = "density_sent"
    /\ SendDone(p)
    /\ ReduceReady(p)
    /\ LET parts == [h \in HeatProcs |->
                        IF h = p
                        THEN LocalNorm(norm, cell_temperatures[p],
                                       cell_temperatures_prev[p])
                        ELSE red[h][1]]
           nv == GlobalNorm(norm, Reduce(norm, parts, heat_ranks, 1))
           c == Decide(nv, epsilon)
       IN  /\ converged' = [converged EXCEPT ![p] = c]
           /\ norm_value' = [norm_value EXCEPT ![p] = nv]
           /\ cbox' = [q \in Procs |->
                          IF q # p /\ q \in ConvergedComm
                          THEN Append(cbox[q], [converged |-> c, norm |-> nv])
                          ELSE cbox[q]]
    /\ red' = [h \in HeatProcs |-> <<>>]
    /\ Log(p, "temperature norm")
    /\ pc' = [pc EXCEPT ![p] = "test"]
    /\ UNCHANGED <<config, mapping, temps, dens, heats, hsolver, nsolver,
                   loopvars, k, T_dot_V, rho_dot_V, chan, nbox, bar, iters, observed>>

\* every other process: `converged` and `norm` are whatever the stack held
\* until the broadcasts overwrite them
IsConvergedReceive(p) ==
    /\ p # heat_root
    /\ pc[p] = "is_converged"
    /\ BroadcastReady(p)
    /\ \E own \in BOOLEAN :
         converged' = [converged EXCEPT ![p] =
             IF p \in ConvergedComm THEN Head(cbox[p]).converged ELSE own]
    /\ IF p \in ConvergedComm
       THEN /\ norm_value' = [norm_value EXCEPT ![p] = Head(cbox[p]).norm]
            /\ cbox' = [cbox EXCEPT ![p] = Tail(@)]
       ELSE UNCHANGED <<norm_value, cbox>>
    /\ Log(p, "temperature norm")
    /\ pc' = [pc EXCEPT ![p] = "test"]
    /\ UNCHANGED <<config, mapping, temps, dens, heats, hsolver, nsolver,
                   loopvars, k, T_dot_V, rho_dot_V, chan, nbox, red, bar, iters, observed>>

\* if (is_converged()) { message; break; } else ++i_picard_
ConvergedTest(p) ==
    /\ pc[p] = "test"
    /\ IF converged[p]
       THEN /\ Log(p, "converged")
            /\ pc' = [pc EXCEPT ![p] = "barrier3"]
            /\ bar' = [bar EXCEPT ![p] = @ + 1]
            /\ UNCHANGED i_picard
       ELSE /\ i_picard' = [i_picard EXCEPT ![p] = @ + 1]
            /\ pc' = [pc EXCEPT ![p] = "picard"]
            /\ UNCHANGED <<msgs, bar>>
    /\ UNCHANGED <<config, mapping, temps, dens, heats, hsolver, nsolver,
                   i_timestep, locals, wires, iters, observed>>

\* the barrier that ends a time step, then ++i_timestep_
TimestepBarrier(p) ==
    /\ pc[p] = "barrier3"
    /\ BarrierOpen(p)
    /\ i_timestep' = [i_timestep EXCEPT ![p] = @ + 1]
    /\ pc' = [pc EXCEPT ![p] = "timestep"]
    /\ UNCHANGED <<config, mapping, temps, dens, heats, hsolver, nsolver,
                   i_picard, locals, wires, bar, msgs, iters, observed>>

\* heat.write_step() after the loops
FinalWrite(p) ==
    /\ pc[p] = "final"
    /\ calls' = [calls EXCEPT ![p] = Append(@, Call("heat", "write_step", <<>>))]
    /\ pc' = [pc EXCEPT ![p] = "done"]
    /\ UNCHANGED <<config, mapping, temps, dens, heats, hsolver, nsolver,
                   loopvars, locals, wires, bar, msgs, iters, raw_temperatures>>

Step(p) ==
    \/ TimestepLoop(p)
    \/ PicardLoop(p)
    \/ NeutronicsStep(p)
    \/ UpdateHeatSource(p)
    \/ HeatStep(p)
    \/ UpdateTemperatureHeat(p)
    \/ UpdateTemperatureBegin(p)
    \/ UpdateTemperatureGather(p)
    \/ UpdateTemperatureSet(p)
    \/ UpdateDensityHeat(p)
    \/ UpdateDensityGather(p)
    \/ UpdateDensityAccumulate(p)
    \/ UpdateDensitySet(p)
    \/ TemperatureNormHeat(p)
    \/ IsConvergedRoot(p)
    \/ IsConvergedReceive(p)
    \/ ConvergedTest(p)
    \/ TimestepBarrier(p)
    \/ FinalWrite(p)

Next == \E p \in Procs : Step(p)

Spec == Init /\ [][Next]_vars

\* the runs in which no process crashes: the heat ranks own no element, so
\* the cell lists the neutronics ranks receive are empty.  The processes of
\* the pool keep running: while some process can take a step, one does.
CrashFreeInit == Init /\ \A p \in Procs : cells[p] = <<>>
FairSpec == CrashFreeInit /\ [][Next]_vars /\ WF_vars(Next)

(* ------------------------------------------------------------------------ *)
(* One heat rank on its own: the sequence of calls it makes in successive   *)
(* Picard iterations and time steps (update_heat_source, the heat-fluids    *)
(* solve, steps 1 and 2 of update_temperature(true), steps 1 and 2 of       *)
(* update_density(true)), with the barriers and the exchanges with the      *)
(* neutronics ranks left out.  The outcome of is_converged() comes from the *)
(* heat root and is any of the two here.  The heat ranks do not exchange    *)
(* anything among themselves in these calls, so a behaviour follows one of  *)
(* them while the others rest at the head of execute().                     *)
(* ------------------------------------------------------------------------ *)
RankAlphaTs == {Half, ROBBINS_MONRO}

RankConfig ==
    /\ max_timesteps = MaxTimesteps
    /\ max_picard_iter = MaxPicard + 1
    /\ epsilon \in Epsilons
    /\ alpha \in Alphas
    /\ alpha_T \in RankAlphaTs
    /\ alpha_rho \in AlphaRhos
    /\ norm = "L1"
    /\ eager = TRUE
    /\ Constructed

RankInit == RankConfig /\ \E g \in Uninitialized, gp \in Uninitialized : InitState(g, gp)

Alone(p) == \A q \in HeatProcs \ {p} : pc[q] = "timestep"

\* the head of the Picard loop, then update_heat_source
RankUpdateHeatSource(p) ==
    /\ Alone(p)
    /\ pc[p] = "picard"
    /\ PicardContinues(i_picard[p])
    /\ LET r == HeatSourceRelaxed(p)
       IN  /\ cell_heat' = [cell_heat EXCEPT ![p] = r.cur]
           /\ cell_heat_prev' = [cell_heat_prev EXCEPT ![p] = r.prev]
           /\ \E i0 \in 0..Len(cells[p]) :
                h_source' = [h_source EXCEPT ![p] =
                                SourceApplied(p, h_source[p], r.cur, i0)]
    /\ pc' = [pc EXCEPT ![p] = "heat"]
    /\ UNCHANGED <<config, mapping, temps, dens, h_temperature, h_density,
                   nsolver, loopvars, locals, wires, bar, msgs, iters, observed>>

RankSolve(p) ==
    /\ pc[p] = "heat"
    /\ \E o \in SolverOutputs :
         /\ h_temperature' = [h_temperature EXCEPT ![p] =
                                 TemperatureLocal(o, p, Len(elem_to_cell[p]))]
         /\ h_density' = [h_density EXCEPT ![p] =
                             DensityLocal(o, p, Len(elem_to_cell[p]))]
         /\ h_source' = [h_source EXCEPT ![p] =
                            [e \in 1..Len(elem_to_cell[p]) |-> <<>>]]
    /\ pc' = [pc EXCEPT ![p] = "heat_done"]
    /\ UNCHANGED <<config, mapping, temps, dens, heats, nsolver, loopvars,
                   locals, wires, bar, msgs, iters, observed>>

RankUpdateTemperature(p) ==
    /\ pc[p] = "heat_done"
    /\ LET r == LocalTemperatures(TRUE, alpha_T, RelaxationCount(i_picard[p]), cells[p],
                                  cell_to_elems[p], elem_volumes[p],
                                  h_temperature[p], cell_temperatures[p],
                                  cell_temperatures_prev[p])
       IN  /\ cell_temperatures' = [cell_temperatures EXCEPT ![p] = r.cur]
           /\ cell_temperatures_prev' = [cell_temperatures_prev EXCEPT ![p] = r.prev]
    /\ raw_temperatures' = [raw_temperatures EXCEPT ![p] =
           Append(@, RawTemperatures(cells[p], cell_to_elems[p], elem_volumes[p],
                                     h_temperature[p]))]
    /\ pc' = [pc EXCEPT ![p] = "temperature_done"]
    /\ UNCHANGED <<config, mapping, dens, heats, hsolver, nsolver, loopvars,
                   locals, wires, bar, msgs, iters, calls>>

RankUpdateDensity(p) ==
    /\ pc[p] = "temperature_done"
    /\ LET r == LocalDensities(TRUE, alpha_rho, RelaxationCount(i_picard[p]), cells[p],
                               cell_to_elems[p], elem_volumes[p],
                               cell_fluid_mask[p], h_density[p],
                               cell_densities[p], cell_densities_prev[p])
       IN  /\ cell_densities' = [cell_densities EXCEPT ![p] = r.cur]
           /\ cell_densities_prev' = [cell_densities_prev EXCEPT ![p] = r.prev]
    /\ pc' = [pc EXCEPT ![p] = "density_done"]
    /\ UNCHANGED <<config, mapping, temps, heats, hsolver, nsolver, loopvars,
                   locals, wires, bar, msgs, iters, observed>>

\* is_converged() returned false: ++i_picard_
RankNextPicard(p) ==
    /\ pc[p] = "density_done"
    /\ i_picard' = [i_picard EXCEPT ![p] = @ + 1]
    /\ pc' = [pc EXCEPT ![p] = "picard"]
    /\ UNCHANGED <<config, mapping, temps, dens, heats, hsolver, nsolver,
                   i_timestep, locals, wires, bar, msgs, iters, observed>>

\* the Picard loop is left, by the break or by its condition: ++i_timestep_,
\* and the next time step, if there is one, begins with i_picard_ = 0
RankNextTimestep(p) ==
    /\ \/ pc[p] = "density_done"
       \/ pc[p] = "picard" /\ ~PicardContinues(i_picard[p])
    /\ TimestepContinues(i_timestep[p] + 1)
    /\ i_timestep' = [i_timestep EXCEPT ![p] = @ + 1]
    /\ i_picard' = [i_picard EXCEPT ![p] = 0]
    /\ raw_temperatures' = [raw_temperatures EXCEPT ![p] = <<>>]
    /\ pc' = [pc EXCEPT ![p] = "picard"]
    /\ UNCHANGED <<config, mapping, temps, dens, heats, hsolver, nsolver,
                   locals, wires, bar, msgs, iters, calls>>

\* the head of execute(): the first time step, if there is one
RankBegin(p) ==
    /\ Alone(p)
    /\ pc[p] = "timestep"
    /\ TimestepContinues(i_timestep[p])
    /\ pc' = [pc EXCEPT ![p] = "picard"]
    /\ UNCHANGED <<config, mapping, temps, dens, heats, hsolver, nsolver,
                   loopvars, locals, wires, bar, msgs, iters, observed>>

RankNext ==
    \E p \in HeatProcs :
        \/ RankBegin(p)
        \/ RankUpdateHeatSource(p)
        \/ RankSolve(p)
        \/ RankUpdateTemperature(p)
        \/ RankUpdateDensity(p)
        \/ RankNextPicard(p)
        \/ RankNextTimestep(p)

SpecRank == RankInit /\ [][RankNext]_vars

(* ------------------------------------------------------------------------ *)
(* The constructor, one statement group at a time on the whole pool: the    *)
(* coupling node, the two solver drivers, then the init_* calls, every node *)
(* of the document being present.  A failed                                 *)
(* Expects or a thrown std::runtime_error ends the construction ("failed"); *)
(* a process on which at() throws is "crashed" and the others wait for it   *)
(* in the exchange that follows.                                            *)
(* ------------------------------------------------------------------------ *)
AlphaTexts == {"robbins-monro", "0", "0.5", "1", "1.5", "-1"}
AlphaTTexts == {"robbins-monro", "1", "1.5"}
AlphaRhoTexts == {"0.5", "0"}
NormTexts == {"L1", "L2", "Linf", "linf"}
InitialTexts == {"neutronics", "heat_fluids", "heat"}
NeutronicsDriverTexts == {"openmc", "mcnp"}
HeatDriverTexts == {"surrogate", "fluent"}

\* the <coupling> node and the two <driver> nodes
Documents ==
    [alpha : AlphaTexts, alpha_T : AlphaTTexts, alpha_rho : AlphaRhoTexts,
     convergence_norm : NormTexts, temperature_ic : InitialTexts,
     density_ic : InitialTexts, neutronics_driver : NeutronicsDriverTexts,
     heat_driver : HeatDriverTexts]

\* pugi::xml_text::as_double()
AsDouble(s) ==
    CASE s = "0" -> RInt(0)
      [] s = "0.5" -> Half
      [] s = "1" -> RInt(1)
      [] s = "1.5" -> Rat(3, 2)
      [] s = "-1" -> RInt(0 - 1)
      [] OTHER -> RInt(0)

\* Expects(alpha >= 0 && alpha <= 1.0)
AlphaInRangeClosed(a) == ~RLess(a, RInt(0)) /\ ~RLess(RInt(1), a)
\* Expects(alpha > 0 && alpha <= 1.0)
AlphaInRange(a) == RLess(RInt(0), a) /\ ~RLess(RInt(1), a)

\* the lambda set_alpha on a present node: whether it returns, and the value
SetAlpha(s) ==
    IF s = "robbins-monro"
    THEN [ok |-> TRUE, value |-> ROBBINS_MONRO]
    ELSE [ok |-> AlphaInRange(AsDouble(s)), value |-> AsDouble(s)]

\* the chain of comparisons on <convergence_norm>
NormOf(s) ==
    CASE s = "L1" -> "L1" [] s = "L2" -> "L2" [] s = "Linf" -> "LINF"
      [] OTHER -> "invalid"

\* the chain of comparisons on <temperature_ic> and <density_ic>
InitialOf(s) ==
    CASE s = "neutronics" -> "neutronics" [] s = "heat_fluids" -> "heat"
      [] OTHER -> "invalid"

\* the driver names the two factories know in a build without Shift and Nek
NeutronicsDrivers == {"openmc"}
HeatDrivers == {"surrogate"}

\* the members before the constructor body runs and the solvers exist
Unconstructed ==
    /\ max_timesteps = 0
    /\ max_picard_iter = 0
    /\ epsilon \in Epsilons
    /\ alpha = RInt(1)
    /\ alpha_T = RInt(1)
    /\ alpha_rho = RInt(1)
    /\ norm = "unset"
    /\ temperature_ic = "unset"
    /\ density_ic = "unset"
    /\ eager = TRUE
    /\ elem_to_cell = [p \in Procs |-> <<>>]
    /\ cell_to_elems = [p \in Procs |-> EmptyMap]
    /\ cells = [p \in Procs |-> <<>>]
    /\ elem_volumes = [p \in Procs |-> <<>>]
    /\ cell_volumes = [p \in Procs |-> <<>>]
    /\ cell_fluid_mask = [p \in Procs |-> <<>>]
    /\ cell_temperatures = [p \in Procs |-> <<>>]
    /\ cell_temperatures_prev = [p \in Procs |-> <<>>]
    /\ cell_densities = [p \in Procs |-> <<>>]
    /\ cell_densities_prev = [p \in Procs |-> <<>>]
    /\ cell_heat = [p \in Procs |-> <<>>]
    /\ cell_heat_prev = [p \in Procs |-> <<>>]
    /\ h_temperature = [p \in HeatProcs |-> <<>>]
    /\ h_density = [p \in HeatProcs |-> <<>>]
    /\ h_source = [p \in HeatProcs |-> <<>>]
    /\ n_temperature = [p \in NeutronicsProcs |-> [c \in CellHandles |->
           InitialTemperature(c)]]
    /\ n_density = [p \in NeutronicsProcs |-> [c \in CellHandles |->
           InitialDensity(c)]]
    /\ pc = [p \in Procs |-> "constructor"]
    /\ i_timestep = [p \in Procs |-> 0]
    /\ i_picard = [p \in Procs |-> 0]
    /\ converged = [p \in Procs |-> FALSE]
    /\ norm_value = [p \in Procs |-> Plain(RInt(0))]
    /\ k = [p \in Procs |-> 1]
    /\ T_dot_V = [p \in Procs |-> EmptyMap]
    /\ rho_dot_V = [p \in Procs |-> EmptyMap]
    /\ chan = [p \in HeatProcs |-> <<>>]
    /\ nbox = [p \in NeutronicsProcs |-> <<>>]
    /\ red = [p \in HeatProcs |-> <<>>]
    /\ cbox = [p \in Procs |-> <<>>]
    /\ bar = [p \in Procs |-> 0]
    /\ msgs = [p \in Procs |-> {}]
    /\ iters = [p \in Procs |-> 0]
    /\ calls = [p \in Procs |-> <<>>]
    /\ raw_temperatures = [p \in Procs |-> <<>>]

ConstructorInit ==
    /\ xml \in Documents
    /\ ctor = "coupling"
    /\ Unconstructed

\* no process has thrown out of an init_* call
NoneCrashed == \A p \in Procs : pc[p] # "crashed"

\* the coupling parameters, up to the four Expects that follow density_ic
ReadCoupling ==
    /\ ctor = "coupling"
    /\ LET a == SetAlpha(xml.alpha)
           aT == SetAlpha(xml.alpha_T)
           aRho == SetAlpha(xml.alpha_rho)
           nm == NormOf(xml.convergence_norm)
           tic == InitialOf(xml.temperature_ic)
           dic == InitialOf(xml.density_ic)
       IN  IF a.ok /\ aT.ok /\ aRho.ok /\ nm # "invalid" /\ tic # "invalid"
              /\ dic # "invalid"
           THEN /\ max_timesteps' = MaxTimesteps
                /\ max_picard_iter' = MaxPicard
                /\ alpha' = a.value
                /\ alpha_T' = aT.value
                /\ alpha_rho' = aRho.value
                /\ norm' = nm
                /\ temperature_ic' = tic
                /\ density_ic' = dic
                /\ ctor' = "drivers"
           ELSE /\ ctor' = "failed"
                /\ UNCHANGED <<max_timesteps, max_picard_iter, alpha, alpha_T,
                               alpha_rho, norm, temperature_ic, density_ic>>
    /\ UNCHANGED <<xml, epsilon, eager, mapping, temps, dens, heats, hsolver,
                   nsolver, pc, loopvars, locals, wires, bar, msgs, iters,
                   observed>>

\* the two driver factories, then the ranks and the roots
CreateDrivers ==
    /\ ctor = "drivers"
    /\ ctor' = IF xml.neutronics_driver \in NeutronicsDrivers /\
                  xml.heat_driver \in HeatDrivers
               THEN "init_mappings" ELSE "failed"
    /\ UNCHANGED <<xml, max_timesteps, max_picard_iter, epsilon, alpha, alpha_T,
                   alpha_rho, norm, temperature_ic, density_ic, eager, mapping,
                   temps, dens, heats, hsolver, nsolver, pc, loopvars, locals,
                   wires, bar, msgs, iters, observed>>

\* the members of config a step of the init_* calls leaves alone
settings == <<xml, max_timesteps, max_picard_iter, epsilon, alpha, alpha_T,
              alpha_rho, norm, temperature_ic, density_ic, eager>>

\* init_mappings(): the heat solver of each heat rank has its elements, the
\* neutronics root resolves their centroids, last those of the last heat rank
InitMappings ==
    /\ ctor = "init_mappings"
    /\ \E mesh \in Meshes :
         /\ elem_to_cell' = [p \in Procs |->
                IF HeatActive(p) THEN mesh[p]
                ELSE IF p = neutronics_root THEN mesh[LastHeat] ELSE <<>>]
         /\ cell_to_elems' = [p \in Procs |->
                IF HeatActive(p) THEN CellToElems(mesh[p]) ELSE EmptyMap]
         /\ cells' = [p \in Procs |->
                IF HeatActive(p) THEN CellList(mesh[p]) ELSE <<>>]
         /\ h_temperature' = [p \in HeatProcs |->
                TemperatureLocal(InitialOutput, p, Len(mesh[p]))]
         /\ h_density' = [p \in HeatProcs |->
                DensityLocal(InitialOutput, p, Len(mesh[p]))]
         /\ h_source' = [p \in HeatProcs |-> [e \in 1..Len(mesh[p]) |-> <<>>]]
    /\ ctor' = "init_volumes"
    /\ UNCHANGED <<settings, elem_volumes, cell_volumes, cell_fluid_mask, temps,
                   dens, heats, nsolver, pc, loopvars, locals, wires, bar, msgs,
                   iters, observed>>

\* init_tallies() and init_volumes(); in a build without NDEBUG the
\* neutronics root also receives the cells and volumes of every heat rank
InitVolumes ==
    /\ ctor = "init_volumes"
    /\ LET ev == [p \in Procs |->
                     IF HeatActive(p) THEN VolumeLocal(p, Len(elem_to_cell[p]))
                     ELSE <<>>]
           cv == [p \in Procs |-> CellVolumes(cells[p], cell_to_elems[p], ev[p])]
       IN  /\ elem_volumes' = ev
           /\ \E debug \in BOOLEAN :
                /\ cell_volumes' = [cv EXCEPT ![neutronics_root] =
                                       IF debug THEN cv[LastHeat] ELSE @]
                /\ cells' = [cells EXCEPT ![neutronics_root] =
                                IF debug THEN cells[LastHeat] ELSE @]
    /\ ctor' = "init_cell_fluid_mask"
    /\ UNCHANGED <<settings, elem_to_cell, cell_to_elems, cell_fluid_mask, temps,
                   dens, heats, hsolver, nsolver, pc, loopvars, locals, wires,
                   bar, msgs, iters, observed>>

InitCellFluidMask ==
    /\ ctor = "init_cell_fluid_mask"
    /\ cell_fluid_mask' = [p \in Procs |->
           IF HeatActive(p)
           THEN CellFluidMask(cells[p], cell_to_elems[p],
                              FluidMaskLocal(elem_to_cell[p]))
           ELSE <<>>]
    /\ ctor' = "init_temperatures"
    /\ UNCHANGED <<settings, elem_to_cell, cell_to_elems, cells, elem_volumes,
                   cell_volumes, temps, dens, heats, hsolver, nsolver, pc,
                   loopvars, locals, wires, bar, msgs, iters, observed>>

\* the heat ranks whose cell list is not empty, in the order of heat_ranks_
WithCells == SelectSeq(heat_ranks, LAMBDA h : cells[h] # <<>>)

\* x.at(i) = ... for each i < cells_.size() on the neutronics root, x being
\* an array of the root that was never resized: std::out_of_range at the
\* first heat rank that sent a cell
RootWritesUnsized(x) == WithCells # <<>> /\ Len(x[neutronics_root]) = 0

\* init_temperatures()
InitTemperatures ==
    /\ ctor = "init_temperatures"
    /\ NoneCrashed
    /\ IF temperature_ic = "neutronics"
       THEN IF RootWritesUnsized(cell_temperatures)
            THEN /\ pc' = [pc EXCEPT ![neutronics_root] = "crashed"]
                 /\ cells' = [cells EXCEPT ![neutronics_root] = cells[Head(WithCells)]]
                 /\ UNCHANGED <<ctor, cell_volumes, temps, nsolver>>
            ELSE /\ cell_temperatures' = [p \in Procs |->
                        IF HeatActive(p) \/ p = neutronics_root
                        THEN [i \in 1..Len(cells[p]) |-> InitialTemperature(cells[p][i])]
                        ELSE <<>>]
                 /\ cell_temperatures_prev' = [p \in Procs |->
                        IF HeatActive(p)
                        THEN [i \in 1..Len(cells[p]) |-> InitialTemperature(cells[p][i])]
                        ELSE <<>>]
                 /\ cells' = [cells EXCEPT ![neutronics_root] = cells[LastHeat]]
                 /\ ctor' = "init_densities"
                 /\ UNCHANGED <<pc, cell_volumes, nsolver>>
       ELSE LET cT == [p \in HeatProcs |->
                          LocalTemperatures(FALSE, alpha_T, 1, cells[p],
                                            cell_to_elems[p], elem_volumes[p],
                                            h_temperature[p], <<>>, <<>>).cur]
                tdv == GatherAll(EmptyMap, cells, cT, cell_volumes, 1)
            IN  /\ cell_temperatures' = [p \in Procs |->
                       IF HeatActive(p) THEN cT[p] ELSE cT[LastHeat]]
                /\ cell_temperatures_prev' = [p \in Procs |->
                       IF HeatActive(p) THEN cT[p] ELSE <<>>]
                /\ cells' = [p \in Procs |->
                       IF HeatActive(p) THEN cells[p] ELSE cells[LastHeat]]
                /\ cell_volumes' = [p \in Procs |->
                       IF HeatActive(p) THEN cell_volumes[p]
                       ELSE cell_volumes[LastHeat]]
                /\ n_temperature' = [p \in NeutronicsProcs |-> [c \in CellHandles |->
                       IF c \in DOMAIN tdv
                       THEN RDiv(tdv[c], NeutronicsVolume(c))
                       ELSE n_temperature[p][c]]]
                /\ ctor' = "init_densities"
                /\ UNCHANGED <<pc, n_density>>
    /\ UNCHANGED <<settings, elem_to_cell, cell_to_elems, elem_volumes,
                   cell_fluid_mask, dens, heats, hsolver, loopvars, locals,
                   wires, bar, msgs, iters, observed>>

\* init_densities(); with density_ic_ == Initial::heat it is
\* update_density(false), whose accumulation consults the fluid mask of the
\* neutronics ranks
InitDensities ==
    /\ ctor = "init_densities"
    /\ NoneCrashed
    /\ IF density_ic = "neutronics"
       THEN IF RootWritesUnsized(cell_densities)
            THEN /\ pc' = [pc EXCEPT ![neutronics_root] = "crashed"]
                 /\ cells' = [cells EXCEPT ![neutronics_root] = cells[Head(WithCells)]]
                 /\ UNCHANGED <<ctor, cell_volumes, dens, nsolver>>
            ELSE /\ cell_densities' = [p \in Procs |->
                        IF HeatActive(p) \/ p = neutronics_root
                        THEN [i \in 1..Len(cells[p]) |-> InitialDensity(cells[p][i])]
                        ELSE <<>>]
                 /\ cell_densities_prev' = [p \in Procs |->
                        IF HeatActive(p)
                        THEN [i \in 1..Len(cells[p]) |-> InitialDensity(cells[p][i])]
                        ELSE <<>>]
                 /\ cells' = [cells EXCEPT ![neutronics_root] = cells[LastHeat]]
                 /\ ctor' = "init_heat_source"
                 /\ UNCHANGED <<pc, cell_volumes, nsolver>>
       ELSE IF WithCells # <<>>
            THEN /\ pc' = [p \in Procs |->
                        IF NeutronicsActive(p) THEN "crashed" ELSE pc[p]]
                 /\ cells' = [p \in Procs |->
                        IF HeatActive(p) THEN cells[p] ELSE cells[Head(WithCells)]]
                 /\ cell_volumes' = [p \in Procs |->
                        IF HeatActive(p) THEN cell_volumes[p]
                        ELSE cell_volumes[Head(WithCells)]]
                 /\ UNCHANGED <<ctor, dens, nsolver>>
            ELSE /\ ctor' = "init_heat_source"
                 /\ UNCHANGED <<pc, cells, cell_volumes, dens, nsolver>>
    /\ UNCHANGED <<settings, elem_to_cell, cell_to_elems, elem_volumes,
                   cell_fluid_mask, temps, heats, hsolver, loopvars, locals,
                   wires, bar, msgs, iters, observed>>

\* init_heat_source(): xt::empty on the heat ranks, then the constructor
\* returns
InitHeatSource ==
    /\ ctor = "init_heat_source"
    /\ \E g \in Uninitialized, gp \in Uninitialized :
         /\ cell_heat' = [p \in Procs |->
                IF HeatActive(p) THEN [i \in 1..Len(cells[p]) |-> g] ELSE <<>>]
         /\ cell_heat_prev' = [p \in Procs |->
                IF HeatActive(p) THEN [i \in 1..Len(cells[p]) |-> gp] ELSE <<>>]
    /\ ctor' = "constructed"
    /\ pc' = [p \in Procs |-> "timestep"]
    /\ UNCHANGED <<settings, mapping, temps, dens, hsolver, nsolver, loopvars,
                   locals, wires, bar, msgs, iters, observed>>

ConstructorNext ==
    \/ ReadCoupling
    \/ CreateDrivers
    \/ InitMappings
    \/ InitVolumes
    \/ InitCellFluidMask
    \/ InitTemperatures
    \/ InitDensities
    \/ InitHeatSource

\* the constructor, then execute()
SpecConstructor == ConstructorInit /\ [][ConstructorNext \/ Next]_vars

(* ------------------------------------------------------------------------ *)
(* Properties                                                               *)
(* ------------------------------------------------------------------------ *)
AllDone == \A p \in Procs : pc[p] = "done"
SomeCrashed == \E p \in Procs : pc[p] = "crashed"

\* the decision the heat root took in Picard iteration i of time step t, read
\* from its return value while it holds it and from its log afterwards
RootDecision(t, i) ==
    IF pc[heat_root] = "test" /\ i_timestep[heat_root] = t /\ i_picard[heat_root] = i
    THEN converged[heat_root]
    ELSE <<"converged", t, i>> \in msgs[heat_root]

\* the process waits at one of the three barriers of execute()
AtBarrier(p) == pc[p] \in {"barrier1", "barrier2", "barrier3"}

\* C1: whenever is_converged returns on a process, the boolean it returns is
\* the one the heat root decided for that Picard iteration, so all processes
\* of the coupled communicator return the same value; processes that wait at
\* the same barrier are in the same time step and the same Picard iteration
C1_SameDecision ==
    /\ \A p \in Procs :
          pc[p] = "test" => converged[p] = RootDecision(i_timestep[p], i_picard[p])
    /\ \A p, q \in Procs :
          (AtBarrier(p) /\ AtBarrier(q) /\ bar[p] = bar[q]) =>
              /\ pc[p] = pc[q]
              /\ i_timestep[p] = i_timestep[q]
              /\ i_picard[p] = i_picard[q]

\* a field process and a non-root heat process have both returned from
\* is_converged of the same iteration, after the heat root has moved on
C1_Witness ==
    \E p \in NeutronicsProcs, q \in HeatProcs \ {heat_root} :
        /\ pc[p] = "test" /\ pc[q] = "test"
        /\ i_timestep[p] = i_timestep[q] /\ i_picard[p] = i_picard[q]
        /\ converged[p] /\ converged[q]
        /\ pc[heat_root] # "test"

\* every cell of every heat rank, and its absolute temperature change between
\* the current and the previous Picard iterate
HeatCells ==
    {x \in HeatProcs \X (1..Cardinality(CellHandles)) :
        x[2] <= Len(cell_temperatures[x[1]])}
AbsChange(x) ==
    RAbs(RSub(cell_temperatures[x[1]][x[2]], cell_temperatures_prev[x[1]][x[2]]))
RECURSIVE SumOver(_, _)
SumOver(S, f) ==
    IF S = {} THEN RInt(0)
    ELSE LET x == CHOOSE y \in S : TRUE IN RAdd(f[x], SumOver(S \ {x}, f))
SumAbs == SumOver(HeatCells, [x \in HeatCells |-> AbsChange(x)])
SumSquares == SumOver(HeatCells, [x \in HeatCells |-> RMul(AbsChange(x), AbsChange(x))])

\* the selected norm of the global temperature change is strictly below
\* epsilon (epsilon is positive, so the L2 test is taken on the squares)
NormBelowEpsilon ==
    CASE norm = "L1" -> RLess(SumAbs, epsilon)
      [] norm = "L2" -> RLess(SumSquares, RMul(epsilon, epsilon))
      [] norm = "LINF" -> \A x \in HeatCells : RLess(AbsChange(x), epsilon)

\* C2: the decision of the heat root is "converged" exactly when the selected
\* norm (L1 sum, L2 root of the sum of squares, Linf maximum) of the global
\* temperature change is strictly less than epsilon
C2_StrictlyBelowEpsilon ==
    pc[heat_root] = "test" => (converged[heat_root] <=> NormBelowEpsilon)

\* the heat root has decided "not converged" on a norm that equals epsilon
C2_Witness ==
    /\ pc[heat_root] = "test"
    /\ ~converged[heat_root]
    /\ HeatCells # {}
    /\ \/ norm = "L1" /\ SumAbs = epsilon
       \/ norm = "L2" /\ SumSquares = RMul(epsilon, epsilon)
       \/ norm = "LINF" /\ \E x \in HeatCells : AbsChange(x) = epsilon
                        /\ \A y \in HeatCells : ~RLess(epsilon, AbsChange(y))

Iter(p) == <<i_timestep[p], i_picard[p]>>
\* program positions inside update_temperature, update_density, is_converged
UpdatePcs ==
    {"temperature_sent", "temperature", "temperature_set", "density_sent",
     "density", "density_acc", "density_set", "is_converged"}

\* q has completed the neutronics step of the iteration p is in and has not
\* gone past the heat-fluids step
InHeatPhase(q, p) ==
    Iter(q) = Iter(p) /\ pc[q] \in {"barrier1", "heat", "barrier2"}

\* q has completed the heat-fluids step of the iteration p is in
HeatSolveDone(q, p) ==
    \/ Iter(q) = Iter(p) /\
          pc[q] \in UpdatePcs \cup {"barrier2", "test", "barrier3", "crashed"}
    \/ /\ i_timestep[q] = i_timestep[p]
       /\ i_picard[q] = i_picard[p] + 1
       /\ pc[q] \in {"picard", "neutronics", "barrier1", "barrier3"}

\* C3 (as the code has it): the two barriers of a Picard iteration order the
\* steps system-wide: no process is in the heat-source update or the
\* heat-fluids step before every process has completed the neutronics step
\* of that iteration, and no process is in the temperature update, the
\* density update or the convergence test before every process has completed
\* the heat-fluids step of that iteration
C3_BarrierSequencing ==
    \A p, q \in Procs :
        /\ pc[p] = "heat" => InHeatPhase(q, p)
        /\ pc[p] \in UpdatePcs => HeatSolveDone(q, p)

\* in a time step after the first, a heat rank is already in the convergence
\* test while a field process is still gathering temperatures
C3_Witness ==
    \E p \in HeatProcs, q \in NeutronicsProcs :
        /\ pc[p] = "is_converged" /\ pc[q] = "temperature"
        /\ Iter(p) = Iter(q)
        /\ i_timestep[p] > 0

\* C3 (as stated): no heat rank has begun the density update while the field
\* root is still receiving or accumulating the temperature contributions of
\* the same iteration
C3_StrictSequence ==
    \A h \in HeatProcs :
        ~(/\ pc[h] = "density_sent"
          /\ pc[neutronics_root] = "temperature"
          /\ Iter(h) = Iter(neutronics_root))

\* a Picard iteration is in progress on p
InIteration(p) ==
    pc[p] \in UpdatePcs \cup {"neutronics", "barrier1", "heat", "barrier2", "test"}

C4_Bounded ==
    \A p \in Procs :
        /\ i_timestep[p] <= max_timesteps
        /\ i_picard[p] <= max_picard_iter
        /\ InIteration(p) => i_picard[p] < max_picard_iter /\ i_timestep[p] < max_timesteps
        /\ iters[p] <= max_timesteps * max_picard_iter
Exhausted(p) ==
    /\ pc[p] = "barrier3"
    /\ max_picard_iter > 0
    /\ i_picard[p] = max_picard_iter

\* the messages execute() and the update functions log in every iteration,
\* whatever the outcome of the convergence test
RoutineMessages ==
    {"i_timestep", "i_picard", "Updating temperature", "Updating density",
     "temperature norm"}

\* C5: when the Picard loop of a time step is exhausted without convergence,
\* the log of the process holds a message of that time step that reports the
\* non-convergence (a message other than the ones logged in every iteration)
C5_NonConvergenceLogged ==
    \A p \in Procs :
        Exhausted(p) =>
            \E m \in msgs[p] :
                /\ m[2] = i_timestep[p]
                /\ m[1] \notin RoutineMessages \cup {"converged"}

\* the local elements of heat rank p that lie in cell c
ElemsOf(p, c) == {e \in 1..Len(elem_to_cell[p]) : elem_to_cell[p][e] = c}

\* volume-weighted average of an element field f of rank p over cell c
WeightedAverage(p, c, f) ==
    LET es == ElemsOf(p, c)
    IN  RDiv(SumOver(es, [e \in es |-> RMul(f[e], elem_volumes[p][e])]),
             SumOver(es, [e \in es |-> elem_volumes[p][e]]))

\* prev + a * (raw - prev)
Blend(a, raw, prev) == RAdd(prev, RMul(a, RSub(raw, prev)))

\* heat rank p executes steps 1 and 2 of update_temperature(true)
TemperatureUpdated(p) == pc[p] = "barrier2" /\ pc'[p] = "temperature_sent"

\* C6: update_temperature(true) with a fixed alpha_T leaves, on every heat
\* rank, each local cell temperature at alpha_T * raw + (1 - alpha_T) * prev,
\* raw being the volume-weighted average of the cell's element temperatures
\* and prev the cell temperature held before the call, and it leaves prev in
\* cell_temperatures_prev_; with alpha_T = 1 the result is raw
C6_TemperatureRelaxation ==
    [][\A p \in HeatProcs :
          (TemperatureUpdated(p) /\ alpha_T # ROBBINS_MONRO) =>
              /\ cell_temperatures_prev'[p] = cell_temperatures[p]
              /\ Len(cell_temperatures'[p]) = Len(cells[p])
              /\ \A i \in 1..Len(cells[p]) :
                    LET raw == WeightedAverage(p, cells[p][i], h_temperature[p])
                    IN  /\ cell_temperatures'[p][i] =
                              Blend(alpha_T, raw, cell_temperatures[p][i])
                        /\ alpha_T = RInt(1) => cell_temperatures'[p][i] = raw]_vars

\* raw [150, 350], prev [140, 340] and alpha_T = 0.5 have given [145, 345]
C6_Witness ==
    /\ alpha_T = Half
    /\ \A p \in HeatProcs : pc[p] = "temperature_sent"
    /\ cell_temperatures[heat_ranks[1]] = <<RInt(145)>>
    /\ cell_temperatures_prev[heat_ranks[1]] = <<RInt(140)>>
    /\ cell_temperatures[heat_ranks[2]] = <<RInt(345)>>
    /\ cell_temperatures_prev[heat_ranks[2]] = <<RInt(340)>>
    /\ WeightedAverage(heat_ranks[1], 1, h_temperature[heat_ranks[1]]) = RInt(150)
    /\ WeightedAverage(heat_ranks[2], 2, h_temperature[heat_ranks[2]]) = RInt(350)

\* heat rank p executes steps 1 and 2 of update_density(true)
DensityUpdated(p) ==
    pc[p] \in {"temperature_sent", "temperature_done"} /\
    pc'[p] \in {"density_sent", "density_done"}

\* C7: update_density(true) with a fixed alpha_rho first saves the densities
\* held before the call in cell_densities_prev_, and leaves every fluid cell
\* at alpha_rho * raw + (1 - alpha_rho) * (its density before the call), so
\* from the second Picard iteration on the blend uses the relaxed density of
\* the previous iteration; a cell that is not fluid keeps its density
C7_DensityRelaxation ==
    [][\A p \in HeatProcs :
          (DensityUpdated(p) /\ alpha_rho # ROBBINS_MONRO) =>
              /\ cell_densities_prev'[p] = cell_densities[p]
              /\ \A i \in 1..Len(cells[p]) :
                    cell_densities'[p][i] =
                        IF cell_fluid_mask[p][i] = 1
                        THEN Blend(alpha_rho,
                                   WeightedAverage(p, cells[p][i], h_density[p]),
                                   cell_densities[p][i])
                        ELSE cell_densities[p][i]]_vars

\* C8: while a field process accumulates the densities received from a heat
\* rank, the fluid mask it consults is the mask of that heat rank and is as
\* long as the received cell list
C8_MaskOfContributor ==
    \A p \in NeutronicsProcs :
        pc[p] = "density_acc" =>
            /\ cell_fluid_mask[p] = cell_fluid_mask[heat_ranks[k[p]]]
            /\ Len(cell_fluid_mask[p]) = Len(cells[p])

\* the heat ranks that own elements of cell c, and the place of c in the
\* cell list of such a rank
Owners(c) == {h \in HeatProcs : c \in Range(cells[h])}
IndexOf(h, c) == CHOOSE i \in 1..Len(cells[h]) : cells[h][i] = c
CoveredCells == UNION {Range(cells[h]) : h \in HeatProcs}

\* sum over the owners of c of local cell temperature times local cell volume
SumTV(c) ==
    SumOver(Owners(c),
            [h \in Owners(c) |-> RMul(cell_temperatures[h][IndexOf(h, c)],
                                      cell_volumes[h][IndexOf(h, c)])])

\* C9: after the gather loop of update_temperature every field process holds
\* the same T_dot_V: one key for every cell in the cell list of some heat
\* rank, whose value is the sum over the owning heat ranks of relaxed local
\* cell temperature times local cell volume
C9_CompleteTdotV ==
    \A p \in NeutronicsProcs :
        pc[p] = "temperature_set" =>
            /\ DOMAIN T_dot_V[p] = CoveredCells
            /\ \A c \in CoveredCells : T_dot_V[p][c] = SumTV(c)

\* both field processes have finished the gather loop for a mesh in which
\* one cell is owned by two heat ranks
C9_Witness ==
    /\ \A p \in NeutronicsProcs : pc[p] = "temperature_set"
    /\ \E c \in CoveredCells : Cardinality(Owners(c)) = 2
    /\ Cardinality(CoveredCells) = 2

\* sum over the owners of c of the local cell volume
SumV(c) ==
    SumOver(Owners(c), [h \in Owners(c) |-> cell_volumes[h][IndexOf(h, c)]])

\* C10: once update_temperature has set the field solver's temperatures, the
\* temperature of every cell covered by the heat domain is sum(T * V) over
\* the contributing heat ranks divided by sum(V) of the same contributions
C10_VolumeWeightedAverage ==
    \A p \in NeutronicsProcs :
        pc[p] = "density" =>
            \A c \in CoveredCells :
                n_temperature[p][c] = RDiv(SumTV(c), SumV(c))

\* the coefficient of the blend in Picard iteration i_picard_ = n - 1
Coefficient(a, n) == IF a = ROBBINS_MONRO THEN RDiv(RInt(1), RInt(n)) ELSE a

\* heat rank p executes update_heat_source
HeatSourceUpdated(p) == pc[p] \in {"barrier1", "picard"} /\ pc'[p] = "heat"
\* heat rank p executes steps 1 and 2 of update_temperature(true), on its own
RankTemperatureUpdated(p) == pc[p] = "heat_done" /\ pc'[p] = "temperature_done"

\* cur' is the blend of raw with what prev' holds
Relaxed(a, n, curNext, raw, prevNext) ==
    \A i \in 1..Len(curNext) :
        curNext[i] = Blend(Coefficient(a, n), raw[i], prevNext[i])

\* C11: update_heat_source leaves cell_heat_ and cell_heat_prev_ as they are
\* in the first Picard iteration of the first time step and in no other
\* iteration: in every other one, the first Picard iteration of a later time
\* step included, it saves cell_heat_ in cell_heat_prev_ and blends; the
\* temperatures and the densities of the fluid cells are blended with the
\* previous slot in every iteration; the temperatures the constructor leaves
\* (update_temperature(false)) are the plain volume averages
C11_RelaxationSchedule ==
    /\ \A p \in HeatProcs :
          cell_temperatures[p] =
              RawTemperatures(cells[p], cell_to_elems[p], elem_volumes[p],
                              h_temperature[p])
    /\ [][\A p \in HeatProcs :
            /\ HeatSourceUpdated(p) =>
                  IF Iter(p) = <<0, 0>>
                  THEN cell_heat'[p] = cell_heat[p] /\
                       cell_heat_prev'[p] = cell_heat_prev[p]
                  ELSE cell_heat_prev'[p] = cell_heat[p] /\
                       Relaxed(alpha, i_picard[p] + 1, cell_heat'[p],
                               cell_heat[p], cell_heat_prev'[p])
            /\ RankTemperatureUpdated(p) =>
                  cell_temperatures_prev'[p] = cell_temperatures[p] /\
                  Relaxed(alpha_T, i_picard[p] + 1, cell_temperatures'[p],
                          RawTemperatures(cells[p], cell_to_elems[p],
                                          elem_volumes[p], h_temperature[p]),
                          cell_temperatures_prev'[p])
            /\ DensityUpdated(p) =>
                  \A i \in 1..Len(cells[p]) :
                      cell_fluid_mask[p][i] = 1 =>
                          cell_densities'[p][i] =
                              Blend(Coefficient(alpha_rho, i_picard[p] + 1),
                                    WeightedAverage(p, cells[p][i], h_density[p]),
                                    cell_densities_prev'[p][i])]_vars

\* a heat rank with cells has run update_heat_source in the first Picard
\* iteration of the second time step, after a first slot that differed
C11_Witness ==
    \E p \in HeatProcs :
        /\ pc[p] = "heat" /\ Iter(p) = <<1, 0>>
        /\ cells[p] # <<>>
        /\ cell_heat_prev[p] = cell_heat[p]

\* the arithmetic mean of the i-th entries of the vectors of rs
MeanOf(rs, i) ==
    RDiv(SeqSum([j \in 1..Len(rs) |-> rs[j][i]]), RInt(Len(rs)))

\* C12: with the diminishing step for the temperatures, once a heat rank has
\* run update_temperature(true) k >= 1 times in a time step each of its cell
\* temperatures is the arithmetic mean of the k raw volume averages of these
\* k iterations; for k = 1 it is the raw value itself
C12_RobbinsMonroMean ==
    \A p \in HeatProcs :
        (alpha_T = ROBBINS_MONRO /\ raw_temperatures[p] # <<>>) =>
            \A i \in 1..Len(cells[p]) :
                cell_temperatures[p][i] = MeanOf(raw_temperatures[p], i)

\* three iterations of one time step whose raw values differ
C12_Witness ==
    \E p \in HeatProcs :
        /\ alpha_T = ROBBINS_MONRO
        /\ Len(raw_temperatures[p]) = 3
        /\ cells[p] # <<>>
        /\ raw_temperatures[p][1] # raw_temperatures[p][2]
        /\ raw_temperatures[p][3] # raw_temperatures[p][2]
        /\ i_timestep[p] = 1

\* the texts of a relaxation node that name the diminishing step or a number
\* in (0, 1]
AcceptedAlphaTexts == {"robbins-monro", "0.5", "1"}

CouplingAccepted(doc) ==
    /\ doc.alpha \in AcceptedAlphaTexts
    /\ doc.alpha_T \in AcceptedAlphaTexts
    /\ doc.alpha_rho \in AcceptedAlphaTexts
    /\ doc.convergence_norm \in {"L1", "L2", "Linf"}
    /\ doc.temperature_ic \in {"neutronics", "heat_fluids"}
    /\ doc.density_ic \in {"neutronics", "heat_fluids"}

DriversAccepted(doc) ==
    doc.neutronics_driver = "openmc" /\ doc.heat_driver = "surrogate"

\* C13: the constructor fails while it reads the coupling node exactly when a
\* fixed relaxation coefficient is outside (0, 1], or the norm or one of the
\* two initial-condition selectors is not recognised, the diminishing-step
\* selector passing without a range check; it fails in the driver factories
\* exactly when a driver name is not recognised; and after a failure no
\* process takes any further step: no init_* call, no lifecycle call, no
\* iteration of the loop
C13_ConfigurationErrors ==
    [][/\ ctor = "coupling" => (ctor' = "failed" <=> ~CouplingAccepted(xml))
       /\ ctor = "drivers" => (ctor' = "failed" <=> ~DriversAccepted(xml))
       /\ ctor # "failed"]_vars

\* a construction that failed on a coefficient of 0 alone
C13_Witness ==
    /\ ctor = "failed"
    /\ xml.alpha = "0"
    /\ CouplingAccepted([xml EXCEPT !.alpha = "1"])
    /\ xml.alpha_T = "robbins-monro"
    /\ \A p \in Procs : calls[p] = <<>> /\ iters[p] = 0

\* init_temperatures has returned on every process and the loop has not begun
TemperaturesInitialized == ctor \in {"init_densities", "init_heat_source"}
\* init_densities has returned on every process and the loop has not begun
DensitiesInitialized == ctor = "init_heat_source"

\* C14: once init_temperatures (init_densities) has returned, the previous
\* slot of every heat rank equals the current one; and when the field solver
\* is the source of the initial condition the call returns on every process,
\* none having thrown, with the i-th value of each heat rank being the field
\* solver's value of the i-th cell of the rank's list
C14_InitialConditions ==
    /\ TemperaturesInitialized =>
          \A p \in HeatProcs :
              /\ cell_temperatures_prev[p] = cell_temperatures[p]
              /\ temperature_ic = "neutronics" =>
                    cell_temperatures[p] =
                        [i \in 1..Len(cells[p]) |-> InitialTemperature(cells[p][i])]
    /\ DensitiesInitialized =>
          \A p \in HeatProcs :
              /\ cell_densities_prev[p] = cell_densities[p]
              /\ density_ic = "neutronics" =>
                    cell_densities[p] =
                        [i \in 1..Len(cells[p]) |-> InitialDensity(cells[p][i])]
    /\ (ctor = "init_temperatures" /\ temperature_ic = "neutronics") => NoneCrashed
    /\ (ctor = "init_densities" /\ density_ic = "neutronics") => NoneCrashed

\* heat.write_step() without arguments
FinalCall == Call("heat", "write_step", <<>>)
\* how often process p has issued it
FinalWrites(p) == Cardinality({j \in 1..Len(calls[p]) : calls[p][j] = FinalCall})
\* execute() has ended on process p, by its return or by an exception
Ended(p) == pc[p] \in {"done", "crashed"}

\* C15: a process issues the final write_step() of the heat solver at most
\* once and only as its last lifecycle call, after the loops; and when
\* execute() has ended on a process, whatever the outcome of the convergence
\* tests and also with max_timesteps or max_picard_iter at 0, the process
\* has issued it exactly once
C15_FinalWriteOnce ==
    \A p \in Procs :
        /\ FinalWrites(p) <= 1
        /\ FinalWrites(p) = 1 =>
              pc[p] = "done" /\ calls[p][Len(calls[p])] = FinalCall
        /\ Ended(p) => FinalWrites(p) = 1

\* heat_ranks_ in every order
Orders ==
    {[i \in 1..Len(heat_ranks) |-> heat_ranks[pi[i]]] :
        pi \in Permutations(1..Len(heat_ranks))}

CallsOf(p, solver, t, i) ==
    SelectSeq(calls[p], LAMBDA c : c.solver = solver /\ c.step = <<t, i>>)

\* the four lifecycle calls of one iteration, in the order of the claim
LifecycleOrder == <<"init_step", "solve_step", "write_step", "finalize_step">>
ExpectedCalls(solver, t, i) ==
    [j \in 1..4 |-> [solver |-> solver, call |-> LifecycleOrder[j], step |-> <<t, i>>]]

\* process p has begun Picard iteration i of time step t
Began(p, t, i) == <<"i_picard", t, i>> \in msgs[p]
\* p is in that iteration at one of the given positions
NowAt(p, t, i, positions) == Iter(p) = <<t, i>> /\ pc[p] \in positions
\* p is past the neutronics step, the heat step, of that iteration
PastNeutronicsStep(p, t, i) == Began(p, t, i) /\ ~NowAt(p, t, i, {"neutronics"})
PastHeatStep(p, t, i) ==
    Began(p, t, i) /\ ~NowAt(p, t, i, {"neutronics", "barrier1", "heat"})

\* C17: in every Picard iteration a process makes the four lifecycle calls of
\* the solver it is active for exactly once and in the order init_step,
\* solve_step, write_step(i_timestep, i_picard), finalize_step; a process
\* makes none of these calls on a solver it is not active for; no heat rank
\* makes its calls of an iteration before every neutronics rank has made all
\* four of the same iteration; and after the break on convergence a process
\* makes no further call in that time step
C17_LifecycleOrder ==
    /\ \A p \in Procs : \A j \in 1..Len(calls[p]) :
          \/ calls[p][j] = Call("heat", "write_step", <<>>)
          \/ /\ calls[p][j].step[1] \in 0..(max_timesteps - 1)
             /\ calls[p][j].step[2] \in 0..(max_picard_iter - 1)
    /\ \A p \in Procs : \A t \in 0..(max_timesteps - 1) :
       \A i \in 0..(max_picard_iter - 1) :
        LET n == CallsOf(p, "neutronics", t, i)
            h == CallsOf(p, "heat", t, i)
        IN  /\ n = IF NeutronicsActive(p) /\ PastNeutronicsStep(p, t, i)
                   THEN ExpectedCalls("neutronics", t, i) ELSE <<>>
            /\ h = IF HeatActive(p) /\ PastHeatStep(p, t, i)
                   THEN ExpectedCalls("heat", t, i) ELSE <<>>
            /\ h # <<>> =>
                  \A q \in NeutronicsProcs :
                      CallsOf(q, "neutronics", t, i) = ExpectedCalls("neutronics", t, i)
            /\ (\E j \in 0..(i - 1) : <<"converged", t, j>> \in msgs[p])
                  => n = <<>> /\ h = <<>>

\* a heat rank made its calls in the first iteration of two time steps, the
\* first of which ended by the break
C17_Witness ==
    \E p \in HeatProcs :
        /\ <<"converged", 0, 0>> \in msgs[p]
        /\ max_picard_iter > 1
        /\ CallsOf(p, "heat", 0, 0) # <<>>
        /\ CallsOf(p, "heat", 1, 0) # <<>>

\* init_mappings has returned
MappingsInitialized == ctor \notin {"coupling", "drivers", "init_mappings", "failed"}

\* the positions of element e in the list of cell c
PositionsIn(p, c, e) ==
    {j \in 1..Len(cell_to_elems[p][c]) : cell_to_elems[p][c][j] = e}

\* C18: after init_mappings, on every heat rank, each local element stands
\* exactly once in the list of the cell it resolved to and in no other list,
\* the lists hold local elements only, cells_ holds every distinct resolved
\* cell exactly once and nothing else, and every cell of cells_ has at least
\* one local element
C18_MappingComplete ==
    MappingsInitialized =>
        \A p \in HeatProcs :
            LET elems == 1..Len(elem_to_cell[p])
            IN  /\ \A e \in elems :
                      /\ elem_to_cell[p][e] \in DOMAIN cell_to_elems[p]
                      /\ \A c \in DOMAIN cell_to_elems[p] :
                            Cardinality(PositionsIn(p, c, e)) =
                                IF c = elem_to_cell[p][e] THEN 1 ELSE 0
                /\ \A c \in DOMAIN cell_to_elems[p] :
                      Range(cell_to_elems[p][c]) \subseteq elems
                /\ Range(cells[p]) = Range(elem_to_cell[p])
                /\ Len(cells[p]) = Cardinality(Range(elem_to_cell[p]))
                /\ \A i \in 1..Len(cells[p]) :
                      /\ cells[p][i] \in DOMAIN cell_to_elems[p]
                      /\ cell_to_elems[p][cells[p][i]] # <<>>

\* the two heat ranks own two elements each, which resolved to one cell per
\* rank
C18_Witness ==
    /\ MappingsInitialized
    /\ \A p \in HeatProcs :
          /\ Len(elem_to_cell[p]) = 2 /\ Len(cells[p]) = 1
          /\ cell_to_elems[p][cells[p][1]] = <<1, 2>>

\* C19: in every state of execute(), from its first statement on, the seven
\* per-cell arrays of a heat rank are as long as its cells_, and entry i of
\* the volumes and of the fluid mask is the one of cell cells_[i]
C19_ArrayLockstep ==
    \A p \in HeatProcs :
        /\ Len(cell_temperatures[p]) = Len(cells[p])
        /\ Len(cell_temperatures_prev[p]) = Len(cells[p])
        /\ Len(cell_densities[p]) = Len(cells[p])
        /\ Len(cell_densities_prev[p]) = Len(cells[p])
        /\ Len(cell_volumes[p]) = Len(cells[p])
        /\ Len(cell_fluid_mask[p]) = Len(cells[p])
        /\ Len(cell_heat[p]) = Len(cells[p])
        /\ \A i \in 1..Len(cells[p]) :
              /\ cell_volumes[p][i] =
                     SumOver(ElemsOf(p, cells[p][i]),
                             [e \in ElemsOf(p, cells[p][i]) |-> elem_volumes[p][e]])
              /\ cell_fluid_mask[p][i] =
                     IF cells[p][i] \in FluidCells THEN 1 ELSE 0

\* a heat rank with two cells has updated its temperatures and densities
C19_Witness ==
    \E p \in HeatProcs :
        /\ Len(cells[p]) = 2
        /\ Len(elem_to_cell[p]) = 2
        /\ pc[p] = "density_sent"


(* ------------------------------------------------------------------------ *)
(* The roots of the two groups                                              *)
(* ------------------------------------------------------------------------ *)
\* the constructor is past the two all-reduces that follow the drivers
RootsKnown == ctor \notin {"coupling", "drivers", "failed"}

\* C20: after construction neutronics_root_ has the same value on every
\* process of the pool and so has heat_root_; each is the global rank of the
\* process that is rank 0 of the corresponding driver communicator, each is a
\* member of that group's rank list, they are the roots the exchanges of the
\* run address, and the two roots are different processes.
C20_RootsAgree ==
    RootsKnown =>
        /\ \A p, q \in Procs : /\ neutronics_root_[p] = neutronics_root_[q]
                               /\ heat_root_[p] = heat_root_[q]
        /\ \A p \in Procs :
              /\ CommRank(neutronics_ranks, neutronics_root_[p]) = 0
              /\ CommRank(heat_ranks, heat_root_[p]) = 0
              /\ neutronics_root_[p] \in Range(neutronics_ranks)
              /\ heat_root_[p] \in Range(heat_ranks)
              /\ neutronics_root_[p] = neutronics_root
              /\ heat_root_[p] = heat_root
              /\ neutronics_root_[p] # heat_root_[p]

\* construction has returned on a pool in which a process that is in neither
\* root's group position holds both roots
C20_Witness ==
    /\ ctor = "constructed"
    /\ \E p \in Procs : /\ p \notin {neutronics_root_[p], heat_root_[p]}
                         /\ neutronics_root_[p] = neutronics_ranks[1]
                         /\ heat_root_[p] = heat_ranks[1]

(* ------------------------------------------------------------------------ *)
(* Applying the heat source                                                 *)
(* ------------------------------------------------------------------------ *)
\* process p makes its update_heat_source call in this step
HeatSourceCall(p) == pc[p] = "barrier1" /\ pc'[p] = "heat"

\* C21: in every update_heat_source call on a heat rank every local element
\* of every local cell receives the heat source exactly once, with the value
\* of cell_heat_ of its owning cell after the relaxation.
C21_SourceAppliedOnce ==
    [][\A p \in HeatProcs :
          HeatSourceCall(p) =>
              \A e \in 1..Len(elem_to_cell[p]) :
                  \E i \in 1..Len(cells[p]) :
                      /\ cells[p][i] = elem_to_cell[p][e]
                      /\ h_source'[p][e] = Append(h_source[p][e], cell_heat'[p][i])]_vars

AtGatherReceive(p) == NeutronicsActive(p) /\ pc[p] \in {"temperature", "density"}

\* C23: throughout execute() cells_, cell_to_elems_, cell_volumes_ and
\* cell_fluid_mask_ of a heat rank keep their values; cell_temperatures_ and
\* cell_densities_ of a heat rank change only in that rank's own
\* update_temperature / update_density, to values computed from the rank's
\* own elements and its own previous values; and the copies of cells_,
\* cell_volumes_, cell_temperatures_ and cell_densities_ that a receive of
\* the exchange overwrites are those of neutronics processes, with the arrays
\* of a heat rank.
C23_MappingImmutable ==
    [][/\ \A p \in HeatProcs :
             /\ cells'[p] = cells[p]
             /\ cell_to_elems'[p] = cell_to_elems[p]
             /\ cell_volumes'[p] = cell_volumes[p]
             /\ cell_fluid_mask'[p] = cell_fluid_mask[p]
             /\ cell_temperatures'[p] # cell_temperatures[p] =>
                    /\ TemperatureUpdated(p) \/ RankTemperatureUpdated(p)
                    /\ Len(cell_temperatures'[p]) = Len(cells[p])
                    /\ \A i \in 1..Len(cells[p]) :
                          cell_temperatures'[p][i] =
                              Blend(Coefficient(alpha_T, i_picard[p] + 1),
                                    WeightedAverage(p, cells[p][i], h_temperature[p]),
                                    cell_temperatures[p][i])
             /\ cell_densities'[p] # cell_densities[p] =>
                    /\ DensityUpdated(p)
                    /\ Len(cell_densities'[p]) = Len(cells[p])
                    /\ \A i \in 1..Len(cells[p]) :
                          cell_densities'[p][i] =
                              Blend(Coefficient(alpha_rho, i_picard[p] + 1),
                                    IF cell_fluid_mask[p][i] = 1
                                    THEN WeightedAverage(p, cells[p][i], h_density[p])
                                    ELSE cell_densities[p][i],
                                    cell_densities_prev[p][i])
       /\ \A p \in Procs :
             (\/ cells'[p] # cells[p]
              \/ cell_volumes'[p] # cell_volumes[p]
              \/ cell_temperatures'[p] # cell_temperatures[p] /\ ~HeatActive(p)
              \/ cell_densities'[p] # cell_densities[p] /\ ~HeatActive(p)) =>
                 /\ AtGatherReceive(p)
                 /\ \E h \in HeatProcs :
                       /\ cells'[p] = cells[h]
                       /\ cell_volumes'[p] = cell_volumes[h]
                       /\ \/ pc[p] = "temperature" /\ cell_temperatures'[p] = cell_temperatures[h]
                          \/ pc[p] = "density" /\ cell_densities'[p] = cell_densities[h]]_vars

\* the neutronics root has replaced its cell list by the differing one of the
\* first heat rank, whose own update has changed its cell temperatures
C23_Witness ==
    /\ pc[neutronics_root] = "temperature"
    /\ k[neutronics_root] = 2
    /\ cells[neutronics_root] = cells[heat_ranks[1]]
    /\ cells[neutronics_root] # cells[LastHeat]
    /\ cell_temperatures[neutronics_root] = cell_temperatures[heat_ranks[1]]
    /\ cell_temperatures[heat_ranks[1]] # cell_temperatures_prev[heat_ranks[1]]

=============================================================================
